---- MODULE Spec2Model ----
(***************************************************************************)
(* A model of the movie / person / book CRUD application: the model        *)
(* classes with their check methods and setters, the storage management    *)
(* methods (add, update, destroy, retrieveAll, saveAll) and the page       *)
(* life cycle of the movies view.                                          *)
(*                                                                         *)
(* JavaScript values are records [t, n, s]: t is the type tag, n the       *)
(* number of a "num" (or the personId of an "obj" person reference), s the *)
(* characters of a "str" as a sequence of one-character strings.           *)
(***************************************************************************)
EXTENDS Integers, Sequences, FiniteSets, TLC

(***************************************************************************)
(* JavaScript values and conversions                                       *)
(***************************************************************************)
Undef == [t |-> "undef", n |-> 0, s |-> <<>>]
Absent == [t |-> "absent", n |-> 0, s |-> <<>>]
NaN == [t |-> "nan", n |-> 0, s |-> <<>>]
Num(i) == [t |-> "num", n |-> i, s |-> <<>>]
Str(cs) == [t |-> "str", n |-> 0, s |-> cs]
Obj(pid) == [t |-> "obj", n |-> pid, s |-> <<>>]

\* reading a property slot: a missing own property reads as undefined
Get(v) == IF v.t = "absent" THEN Undef ELSE v

Digits == <<"0", "1", "2", "3", "4", "5", "6", "7", "8", "9">>
IsDigit(c) == \E i \in 1..10 : Digits[i] = c
DigitVal(c) == (CHOOSE i \in 1..10 : Digits[i] = c) - 1

\* ToBoolean
Truthy(v) ==
  CASE v.t = "num" -> v.n # 0
    [] v.t = "str" -> v.s # <<>>
    [] v.t = "obj" -> TRUE
    [] OTHER -> FALSE

RECURSIVE SkipSpaces(_)
SkipSpaces(cs) ==
  IF cs # <<>> /\ Head(cs) = " " THEN SkipSpaces(Tail(cs)) ELSE cs

RECURSIVE DropTrailingSpaces(_)
DropTrailingSpaces(cs) ==
  IF cs # <<>> /\ cs[Len(cs)] = " "
  THEN DropTrailingSpaces(SubSeq(cs, 1, Len(cs) - 1)) ELSE cs

\* String.prototype.trim
Trim(cs) == DropTrailingSpaces(SkipSpaces(cs))

RECURSIVE DigitPrefix(_)
DigitPrefix(cs) ==
  IF cs # <<>> /\ IsDigit(Head(cs)) THEN <<Head(cs)>> \o DigitPrefix(Tail(cs)) ELSE <<>>

RECURSIVE DigitsValue(_)
DigitsValue(cs) ==
  IF cs = <<>> THEN 0 ELSE 10 * DigitsValue(SubSeq(cs, 1, Len(cs) - 1)) + DigitVal(cs[Len(cs)])

RECURSIVE NatToStr(_)
NatToStr(k) ==
  IF k < 10 THEN <<Digits[k + 1]>> ELSE NatToStr(k \div 10) \o <<Digits[(k % 10) + 1]>>

\* ToString of a value (the characters); also the property key a value denotes
ToStr(v) ==
  CASE v.t = "str" -> v.s
    [] v.t = "num" -> IF v.n < 0 THEN <<"-">> \o NatToStr(0 - v.n) ELSE NatToStr(v.n)
    [] v.t = "nan" -> <<"N", "a", "N">>
    [] v.t = "obj" -> <<"[", "o", "b", "j", "e", "c", "t", " ", "O", "b", "j", "e", "c", "t", "]">>
    [] OTHER -> <<"u", "n", "d", "e", "f", "i", "n", "e", "d">>

\* a local constant: F applied to the value of x
Let(x, F(_)) == F(x)

\* a numeral without its optional sign
Unsigned(cs) == IF cs # <<>> /\ Head(cs) \in {"-", "+"} THEN Tail(cs) ELSE cs

\* parseInt( x): leading white space, an optional sign, the longest digit prefix
ParseInt(v) ==
  Let(SkipSpaces(ToStr(v)), LAMBDA cs :
    Let(DigitPrefix(Unsigned(cs)), LAMBDA ds :
      IF ds = <<>> THEN NaN
      ELSE IF Head(cs) = "-" THEN Num(0 - DigitsValue(ds)) ELSE Num(DigitsValue(ds))))

\* ToNumber, as applied by the relational operators to a non-number operand
ToNumber(v) ==
  CASE v.t = "num" -> v
    [] v.t = "str" ->
         Let(Trim(v.s), LAMBDA cs :
           Let(Unsigned(cs), LAMBDA body :
             IF cs = <<>> THEN Num(0)
             ELSE IF body # <<>> /\ DigitPrefix(body) = body
                  THEN IF Head(cs) = "-" THEN Num(0 - DigitsValue(body)) ELSE Num(DigitsValue(body))
                  ELSE NaN))
    [] OTHER -> NaN

\* x < k for an integer k
LessThan(v, k) == Let(ToNumber(v), LAMBDA x : x.t = "num" /\ x.n < k)

\* Number.isInteger
IsInteger(v) == v.t = "num"

\* typeof x !== "string" || x.trim() === ""
NotNonEmptyString(v) == v.t # "str" \/ Trim(v.s) = <<>>

\* strict equality of two values (object references compare by the person they denote)
StrictEq(a, b) == a.t = b.t /\ a.t # "nan" /\ a.n = b.n /\ a.s = b.s

(***************************************************************************)
(* Results of check methods: the class of the returned object, or the      *)
(* class of the error raised while the check ran.                          *)
(***************************************************************************)
Ret(c) == [thrown |-> FALSE, cls |-> c]
Throw(c) == [thrown |-> TRUE, cls |-> c]
IsNoViolation(r) == ~r.thrown /\ r.cls = "NoConstraintViolation"

(***************************************************************************)
(* Date.parse for date-only ISO strings YYYY-MM-DD: the UTC time stamp,    *)
(* counted in days (date-only forms are whole multiples of a day, so that  *)
(* the tests "is zero" and "is earlier than" are those of the millisecond  *)
(* value). Every other string of the input sets is one that no engine      *)
(* accepts as a date: NaN.                                                 *)
(***************************************************************************)
\* the days from 1970-01-01 to the day d of month m of year y (proleptic Gregorian)
DaysFromCivil(y, m, d) ==
  Let(IF m <= 2 THEN y - 1 ELSE y, LAMBDA yy :
    Let(yy % 400, LAMBDA yoe :
      (yy \div 400) * 146097 + yoe * 365 + yoe \div 4 - yoe \div 100
        + (153 * (IF m > 2 THEN m - 3 ELSE m + 9) + 2) \div 5 + d - 1 - 719468))

DateParse(v) ==
  IF /\ v.t = "str"
     /\ Len(v.s) = 10
     /\ \A i \in {1, 2, 3, 4, 6, 7, 9, 10} : IsDigit(v.s[i])
     /\ v.s[5] = "-" /\ v.s[8] = "-"
     /\ DigitsValue(SubSeq(v.s, 6, 7)) \in 1..12
     /\ DigitsValue(SubSeq(v.s, 9, 10)) \in 1..31
  THEN Num(DaysFromCivil(DigitsValue(SubSeq(v.s, 1, 4)), DigitsValue(SubSeq(v.s, 6, 7)),
                         DigitsValue(SubSeq(v.s, 9, 10))))
  ELSE NaN

\* obj[key] is defined for the key that v denotes
HasKey(map, v) == ToStr(v) \in DOMAIN map
\* obj[key] = val and delete obj[key]
Put(map, k, val) == [x \in (DOMAIN map) \cup {k} |-> IF x = k THEN val ELSE map[x]]
Del(map, k) == [x \in (DOMAIN map) \ {k} |-> map[x]]
EmptyMap == [x \in {} |-> Undef]

(***************************************************************************)
(* Constraint violation classes (lib/errorTypes.mjs) and the names that    *)
(* resolve inside Movie.mjs of assignment6: its imports, its own           *)
(* declarations and the built-in globals it uses. Evaluating any other     *)
(* identifier, or assigning to one, raises a ReferenceError (module code   *)
(* is strict).                                                             *)
(***************************************************************************)
CV ==
  [No |-> "NoConstraintViolation", Mandatory |-> "MandatoryValueConstraintViolation",
   Range |-> "RangeConstraintViolation", Interval |-> "IntervalConstraintViolation",
   Uniqueness |-> "UniquenessConstraintViolation",
   StringLength |-> "StringLengthConstraintViolation",
   Pattern |-> "PatternConstraintViolation", FrozenValue |-> "FrozenValueConstraintViolation",
   ReferentialIntegrity |-> "ReferentialIntegrityConstraintViolation",
   Generic |-> "ConstraintViolation"]

MovieScope ==
  {"cloneObject", CV.No, CV.Mandatory, CV.Range, CV.Interval, CV.Uniqueness, CV.StringLength,
   "Person", "Enumeration", "MovieCategoryEL", "Movie",
   "parseInt", "Number", "Date", "String", "Array", "Object", "JSON", "console",
   "localStorage", "alert"}

\* new C( ...) resp. a call of f inside Movie.mjs
MovieNew(c) == IF c \in MovieScope THEN Ret(c) ELSE Throw("ReferenceError")

\* MovieCategoryEL = new Enumeration(["Biography","TvSeriesEpisode"]): literals count from 1
MovieCategoryEL == [BIOGRAPHY |-> 1, TVSERIESEPISODE |-> 2, MAX |-> 2]

(***************************************************************************)
(* Person (assignment6): a person object is [cls, personId, name]; an      *)
(* instances map takes the key (the characters of the ID) to the object.   *)
(***************************************************************************)
Person_checkPersonId(id) ==
  IF ~Truthy(id) THEN Ret(CV.No)
  ELSE Let(ParseInt(id), LAMBDA n :
         IF n.t = "nan" \/ ~IsInteger(n) \/ n.n < 1 THEN Ret(CV.Range) ELSE Ret(CV.No))

\* the ID check without the look-up in the instances map of the direct type
Person_checkPersonIdAsId_NoUniqueness(id, directInstances) ==
  Let(ParseInt(id), LAMBDA n :
    IF n.t = "nan" THEN Ret(CV.Mandatory) ELSE Person_checkPersonId(n))

Person_checkPersonIdAsId(id, directInstances) ==
  Let(ParseInt(id), LAMBDA n :
    IF n.t = "nan" THEN Ret(CV.Mandatory)
    ELSE Let(Person_checkPersonId(n), LAMBDA validationResult :
           IF IsNoViolation(validationResult)
           THEN IF HasKey(directInstances, n) THEN Ret(CV.Uniqueness) ELSE Ret(CV.No)
           ELSE validationResult))

\* the ID reference check without the look-up of the referenced object
Person_checkPersonIdAsIdRef_NoLookup(id, PI, subs) == Person_checkPersonId(id)

\* subs: the instances maps of the classes in Person.subtypes
Person_checkPersonIdAsIdRef(id, PI, subs) ==
  Let(Person_checkPersonId(id), LAMBDA validationResult :
    IF (IsNoViolation(validationResult) \/ validationResult = Ret(CV.Uniqueness)) /\ Truthy(id)
    THEN IF ~HasKey(PI, id)
         THEN IF \E i \in DOMAIN subs : \E key \in DOMAIN subs[i] :
                   StrictEq(Num(subs[i][key].personId), id)
              THEN Ret(CV.No) ELSE Ret(CV.ReferentialIntegrity)
         ELSE validationResult
    ELSE validationResult)

Person_checkName(name) ==
  IF ~Truthy(name) THEN Ret(CV.Mandatory)
  ELSE IF NotNonEmptyString(name) THEN Ret(CV.Range)
  ELSE Ret(CV.No)

\* new Person( slots), new Director( slots): the setters of personId and name in turn
Ok(o) == [ok |-> TRUE, exc |-> "", obj |-> o]
Fail(c) == [ok |-> FALSE, exc |-> c, obj |-> Undef]

Person_new(cls, personId, name, directInstances) ==
  Let(Person_checkPersonIdAsId(personId, directInstances), LAMBDA r1 :
    IF ~IsNoViolation(r1) THEN Fail(r1.cls)
    ELSE Let(Person_checkName(name), LAMBDA r2 :
           IF ~IsNoViolation(r2) THEN Fail(r2.cls)
           ELSE Ok([cls |-> cls, personId |-> ParseInt(personId).n, name |-> name])))

(***************************************************************************)
(* Movie (assignment6): the check methods                                  *)
(***************************************************************************)
Movie_checkMovieID(id) ==
  IF ~IsInteger(ParseInt(id)) THEN Ret(CV.Range)
  ELSE IF LessThan(id, 0) THEN Ret(CV.Interval)
  ELSE Ret(CV.No)

\* the ID check without the test for an existing record
Movie_checkMovieIdAsId_NoUniqueness(id, MI) ==
  Let(Movie_checkMovieID(id), LAMBDA validationResult :
    IF IsNoViolation(validationResult) /\ ~Truthy(id) THEN Ret(CV.Mandatory) ELSE validationResult)

Movie_checkMovieIdAsId(id, MI) ==
  Let(Movie_checkMovieID(id), LAMBDA validationResult :
    IF IsNoViolation(validationResult)
    THEN IF ~Truthy(id) THEN Ret(CV.Mandatory)
         ELSE IF HasKey(MI, id) THEN Ret(CV.Uniqueness)
         ELSE Ret(CV.No)
    ELSE validationResult)

\* the title check without the length limit
Movie_checkTitle_NoLimit(tit) ==
  IF ~Truthy(tit) THEN Ret(CV.Mandatory)
  ELSE IF NotNonEmptyString(tit) THEN Ret(CV.Range)
  ELSE Ret(CV.No)

Movie_checkTitle(tit) ==
  IF ~Truthy(tit) THEN Ret(CV.Mandatory)
  ELSE IF NotNonEmptyString(tit) THEN Ret(CV.Range)
  ELSE IF Len(tit.s) > 120 THEN Ret(CV.StringLength)
  ELSE Ret(CV.No)

LOWER_BOUND_DATE == DateParse(Str(<<"1", "8", "9", "5", "-", "1", "2", "-", "2", "8">>))

Movie_checkReleaseDate(rd) ==
  IF ~Truthy(rd) THEN Ret(CV.Mandatory)
  ELSE Let(DateParse(rd), LAMBDA t :
         IF ~Truthy(t) THEN Ret(CV.Range)
         ELSE IF t.n < LOWER_BOUND_DATE.n THEN Ret(CV.Interval)
         ELSE Ret(CV.No))

Movie_checkDirector(director_id, PI, subs) ==
  IF ~Truthy(director_id) THEN Ret(CV.Mandatory)
  ELSE Person_checkPersonIdAsIdRef(director_id, PI, subs)

Movie_checkCategory(c) ==
  IF c = Undef THEN Ret(CV.No)
  ELSE IF "isIntegerOrIntegerString" \notin MovieScope THEN Throw("ReferenceError")
  ELSE Let(ParseInt(c), LAMBDA n :
         IF ~IsInteger(n) \/ n.n < 1 \/ n.n > MovieCategoryEL.MAX THEN Ret(CV.Range)
         ELSE Ret(CV.No))

Movie_checkTvSeriesName(tsn, c) ==
  Let(ParseInt(c), LAMBDA cat :
    IF StrictEq(cat, Num(MovieCategoryEL.TVSERIESEPISODE)) /\ ~Truthy(tsn) THEN Ret(CV.Mandatory)
    ELSE IF ~StrictEq(cat, Num(MovieCategoryEL.TVSERIESEPISODE)) /\ Truthy(tsn)
         THEN MovieNew(CV.Generic)
    ELSE IF Truthy(tsn) /\ NotNonEmptyString(tsn) THEN Ret(CV.Range)
    ELSE Ret(CV.No))

Movie_checkEpisodeNo(en, c) ==
  Let(ParseInt(c), LAMBDA cat :
    IF StrictEq(cat, Num(MovieCategoryEL.TVSERIESEPISODE)) /\ ~Truthy(en) THEN Ret(CV.Mandatory)
    ELSE IF ~StrictEq(cat, Num(MovieCategoryEL.TVSERIESEPISODE)) /\ Truthy(en)
         THEN MovieNew(CV.Generic)
    \* en && !Number.isInteger( parseInt( id)): id is no name of this scope
    ELSE IF Truthy(en) THEN (IF "id" \in MovieScope THEN Ret(CV.Range) ELSE Throw("ReferenceError"))
    ELSE Ret(CV.No))

Movie_checkAbout(about, c, PI, subs) ==
  Let(ParseInt(c), LAMBDA cat :
    IF StrictEq(cat, Num(MovieCategoryEL.BIOGRAPHY)) /\ ~Truthy(about) THEN Ret(CV.Mandatory)
    ELSE IF ~StrictEq(cat, Num(MovieCategoryEL.BIOGRAPHY)) /\ Truthy(about)
         THEN MovieNew(CV.Generic)
    \* return validationResult = ...: an assignment to an undeclared name
    ELSE IF "validationResult" \in MovieScope
         THEN Person_checkPersonIdAsIdRef(about, PI, subs)
    ELSE Throw("ReferenceError"))

(***************************************************************************)
(* Movie (assignment6): objects, setters and the constructor.              *)
(* A movie object is [movieId, title, releaseDate, director, hasActors,    *)
(* actors]: a slot that is no own property is Absent; director is Absent,  *)
(* undefined or the reference Obj(personId) of the person it points to;    *)
(* actors is the map _actors (key -> reference or undefined). The slots    *)
(* category, tvSeriesName, episodeNo and about never come into being: each *)
(* of their assignments raises an error (see Movie_new).                   *)
(* A list argument is [kind, items] with kind "absent", "array" or "map".  *)
(***************************************************************************)
NoList == [kind |-> "absent", items |-> <<>>]
Array(items) == [kind |-> "array", items |-> items]
MapOf(items) == [kind |-> "map", items |-> items]

FailAt(c, o) == [ok |-> FALSE, exc |-> c, obj |-> o]

NewMovieObject ==
  [movieId |-> Absent, title |-> Absent, releaseDate |-> Absent, director |-> Absent,
   hasActors |-> FALSE, actors |-> EmptyMap]

\* Person.instances[ id] as a reference
PersonRef(PI, id) == IF HasKey(PI, id) THEN Obj(PI[ToStr(id)].personId) ELSE Undef

Movie_set_movieId(o, id, MI) ==
  Let(Movie_checkMovieIdAsId(id, MI), LAMBDA r :
    IF IsNoViolation(r) THEN Ok([o EXCEPT !.movieId = id]) ELSE FailAt(r.cls, o))

Movie_set_title(o, tit) ==
  Let(Movie_checkTitle(tit), LAMBDA r :
    IF IsNoViolation(r) THEN Ok([o EXCEPT !.title = tit]) ELSE FailAt(r.cls, o))

Movie_set_releaseDate(o, rd) ==
  Let(Movie_checkReleaseDate(rd), LAMBDA r :
    IF IsNoViolation(r) THEN Ok([o EXCEPT !.releaseDate = rd]) ELSE FailAt(r.cls, o))

Movie_set_director(o, d, PI, subs) ==
  IF ~Truthy(d) THEN Ok([o EXCEPT !.director = Absent])
  ELSE Let(IF d.t # "obj" THEN d ELSE Num(d.n), LAMBDA director_id :
         Let(Movie_checkDirector(director_id, PI, subs), LAMBDA validationResult :
           IF IsNoViolation(validationResult)
           THEN Ok([o EXCEPT !.director = PersonRef(PI, director_id)])
           ELSE FailAt(validationResult.cls, o)))

\* a.actorId of an object reference: person objects have no such property
Movie_actorId(a) == IF a.t # "obj" THEN ParseInt(a) ELSE Undef

Movie_addActor(o, a, PI) ==
  Let(Movie_actorId(a), LAMBDA actor_id :
    IF ~Truthy(actor_id) THEN Ok(o)
    ELSE IF ~o.hasActors THEN FailAt("TypeError", o)
    ELSE Ok([o EXCEPT !.actors = Put(@, ToStr(actor_id), PersonRef(PI, actor_id))]))

Movie_removeActor(o, a) ==
  Let(Movie_actorId(a), LAMBDA actor_id :
    IF ~Truthy(actor_id) THEN Ok(o)
    ELSE IF ~o.hasActors THEN FailAt("TypeError", o)
    ELSE Ok([o EXCEPT !.actors = Del(@, ToStr(actor_id))]))

RECURSIVE Movie_addActors(_, _, _)
Movie_addActors(o, items, PI) ==
  IF items = <<>> THEN Ok(o)
  ELSE Let(Movie_addActor(o, Head(items), PI), LAMBDA r :
         IF r.ok THEN Movie_addActors(r.obj, Tail(items), PI) ELSE r)

RECURSIVE Movie_removeActors(_, _)
Movie_removeActors(o, items) ==
  IF items = <<>> THEN Ok(o)
  ELSE Let(Movie_removeActor(o, Head(items)), LAMBDA r :
         IF r.ok THEN Movie_removeActors(r.obj, Tail(items)) ELSE r)

\* set actors( a): a fresh map, then addActor for every element
Movie_set_actors(o, a, PI) ==
  Movie_addActors([o EXCEPT !.hasActors = TRUE, !.actors = EmptyMap], a.items, PI)

\* set category( c): both branches name something Movie.mjs does not import
Movie_set_category(o, c) ==
  Let(Movie_checkCategory(c), LAMBDA r :
    IF IsNoViolation(r) THEN Ok(o) ELSE FailAt(r.cls, o))

Movie_set_tvSeriesName(o, tsn) ==
  Let(Movie_checkTvSeriesName(tsn, Undef), LAMBDA r :
    IF IsNoViolation(r) THEN Ok(o) ELSE FailAt(r.cls, o))

\* episodeNo has a getter and no setter: the assignment is a TypeError
Movie_set_episodeNo(o, en) == FailAt("TypeError", o)

Movie_set_about(o, about, PI, subs) ==
  Let(Movie_checkAbout(about, Undef, PI, subs), LAMBDA r :
    IF IsNoViolation(r) THEN Ok(o) ELSE FailAt(r.cls, o))

\* a || b
OrElse(a, b) == IF Truthy(a) THEN a ELSE b

MovieSlots(movieId, title, releaseDate, director, director_id, actors, actorsIdRef, category, tvSeriesName, episodeNo, about) ==
  [movieId |-> movieId, title |-> title, releaseDate |-> releaseDate,
   director |-> director, director_id |-> director_id, actors |-> actors,
   actorsIdRef |-> actorsIdRef, category |-> category, tvSeriesName |-> tvSeriesName,
   episodeNo |-> episodeNo, about |-> about]

\* the i-th assignment of the constructor
Movie_new_slot(i, o, slots, MI, PI, subs) ==
  CASE i = 1 -> Movie_set_movieId(o, Get(slots.movieId), MI)
    [] i = 2 -> Movie_set_title(o, Get(slots.title))
    [] i = 3 -> Movie_set_releaseDate(o, Get(slots.releaseDate))
    [] i = 4 -> Movie_set_director(o, OrElse(Get(slots.director), Get(slots.director_id)), PI, subs)
    [] i = 5 -> IF slots.actors.kind # "absent" \/ slots.actorsIdRef.kind # "absent"
                THEN Movie_set_actors(o, IF slots.actors.kind # "absent" THEN slots.actors
                                         ELSE slots.actorsIdRef, PI)
                ELSE Ok(o)
    [] i = 6 -> IF Truthy(Get(slots.category)) THEN Movie_set_category(o, slots.category) ELSE Ok(o)
    [] i = 7 -> IF Truthy(Get(slots.tvSeriesName)) THEN Movie_set_tvSeriesName(o, slots.tvSeriesName)
                ELSE Ok(o)
    [] i = 8 -> IF Truthy(Get(slots.episodeNo)) THEN Movie_set_episodeNo(o, slots.episodeNo) ELSE Ok(o)
    [] OTHER -> IF Truthy(Get(slots.about)) THEN Movie_set_about(o, slots.about, PI, subs) ELSE Ok(o)

\* the assignments from the i-th on; the first one that throws ends the constructor
RECURSIVE Movie_new_from(_, _, _, _, _, _)
Movie_new_from(i, r, slots, MI, PI, subs) ==
  IF ~r.ok \/ i > 9 THEN r
  ELSE Movie_new_from(i + 1, Movie_new_slot(i, r.obj, slots, MI, PI, subs), slots, MI, PI, subs)

Movie_new(slots, MI, PI, subs) == Movie_new_from(1, Ok(NewMovieObject), slots, MI, PI, subs)

(***************************************************************************)
(* cloneObject of lib/util.mjs. Two versions of the library are part of    *)
(* the repository: one copies only slots holding a number, a string, a     *)
(* boolean, a function or a Date ("data"); the other also copies slots     *)
(* holding an object with a constructor, by reference ("refs"), so that    *)
(* the clone shares the _actors map with the object it was made from.      *)
(***************************************************************************)
IsData(v) == v.t \in {"num", "str", "nan"}

\* orig: the object when the clone was made; now: the same object when the clone is used
cloneObject(variant, orig, now) ==
  [movieId |-> IF IsData(orig.movieId) THEN orig.movieId ELSE Absent,
   title |-> IF IsData(orig.title) THEN orig.title ELSE Absent,
   releaseDate |-> IF IsData(orig.releaseDate) THEN orig.releaseDate ELSE Absent,
   director |-> IF variant = "refs" /\ orig.director.t = "obj" THEN orig.director ELSE Absent,
   hasActors |-> variant = "refs" /\ orig.hasActors,
   actors |-> IF variant = "refs" /\ orig.hasActors THEN now.actors ELSE EmptyMap]

(***************************************************************************)
(* Movie (assignment6): storage management methods. Each takes the maps it *)
(* reads and yields [MI, thrown]: the new Movie.instances and whether an   *)
(* error left the method.                                                  *)
(***************************************************************************)
Movie_add(slots, MI, PI, subs) ==
  Let(Movie_new(slots, MI, PI, subs), LAMBDA c :
    IF c.ok THEN [MI |-> Put(MI, ToStr(c.obj.movieId), c.obj), thrown |-> FALSE]
    ELSE [MI |-> MI, thrown |-> FALSE])

UpdateSlots(movieId, title, releaseDate, actorsIdRefsToAdd, actorsIdRefsToRemove, director_id) ==
  [movieId |-> movieId, title |-> title, releaseDate |-> releaseDate,
   actorsIdRefsToAdd |-> actorsIdRefsToAdd, actorsIdRefsToRemove |-> actorsIdRefsToRemove,
   director_id |-> director_id]

\* the i-th statement of the try block of Movie.update, applied to the movie object
Movie_update_slot(i, o, slots, PI, subs) ==
  CASE i = 1 -> IF Truthy(slots.title) /\ ~StrictEq(Get(o.title), slots.title)
                THEN Movie_set_title(o, slots.title) ELSE Ok(o)
    [] i = 2 -> IF Truthy(slots.releaseDate)
                   /\ ~StrictEq(Get(o.releaseDate), ParseInt(slots.releaseDate))
                THEN Movie_set_releaseDate(o, slots.releaseDate) ELSE Ok(o)
    [] i = 3 -> IF slots.actorsIdRefsToAdd.kind # "absent"
                THEN Movie_addActors(o, slots.actorsIdRefsToAdd.items, PI) ELSE Ok(o)
    [] i = 4 -> IF slots.actorsIdRefsToRemove.kind # "absent"
                THEN Movie_removeActors(o, slots.actorsIdRefsToRemove.items) ELSE Ok(o)
    [] OTHER -> IF ~Truthy(slots.director_id) THEN Ok(o)
                ELSE IF Get(o.director).t # "obj" THEN FailAt("TypeError", o)
                ELSE IF ~StrictEq(Num(o.director.n), slots.director_id)
                     THEN Movie_set_director(o, slots.director_id, PI, subs)
                ELSE Ok(o)

RECURSIVE Movie_update_from(_, _, _, _, _)
Movie_update_from(i, r, slots, PI, subs) ==
  IF ~r.ok \/ i > 5 THEN r
  ELSE Movie_update_from(i + 1, Movie_update_slot(i, r.obj, slots, PI, subs), slots, PI, subs)

Movie_update_try(movie, slots, PI, subs) == Movie_update_from(1, Ok(movie), slots, PI, subs)

Movie_update(variant, slots, MI, PI, subs) ==
  IF ~HasKey(MI, slots.movieId) THEN [MI |-> MI, thrown |-> TRUE]
  ELSE Let(ToStr(slots.movieId), LAMBDA key :
         Let(Movie_update_try(MI[key], slots, PI, subs), LAMBDA r :
           IF r.ok THEN [MI |-> Put(MI, key, r.obj), thrown |-> FALSE]
           ELSE [MI |-> Put(MI, key, cloneObject(variant, MI[key], r.obj)), thrown |-> FALSE]))

Movie_destroy(movieId, MI) ==
  IF HasKey(MI, movieId)
  \* movie.toString(): this.director.toString() needs a director object
  THEN IF Get(MI[ToStr(movieId)].director).t # "obj" THEN [MI |-> MI, thrown |-> TRUE]
       ELSE [MI |-> Del(MI, ToStr(movieId)), thrown |-> FALSE]
  ELSE [MI |-> MI, thrown |-> FALSE]

(***************************************************************************)
(* Local storage: a blob is [present, recs]; recs is the parsed JSON text, *)
(* a map from keys to records. JSON.stringify drops a slot whose value is  *)
(* undefined and writes an object through its toJSON; a person object      *)
(* becomes a nested record, which reads back as an object with a personId. *)
(***************************************************************************)
NoBlob == [present |-> FALSE, recs |-> EmptyMap]
\* the local storage before anything is written: no key has a value
NoStorage ==
  [movies |-> NoBlob, people |-> NoBlob, directors |-> NoBlob, employees |-> NoBlob,
   authors |-> NoBlob, books |-> NoBlob]
Blob(recs) == [present |-> TRUE, recs |-> recs]

\* the keys of a map in the order of Object.keys: integer keys ascending
RECURSIVE KeysInOrder(_)
KeysInOrder(ks) ==
  IF ks = {} THEN <<>>
  ELSE Let(CHOOSE x \in ks : \A y \in ks : DigitsValue(DigitPrefix(x)) <= DigitsValue(DigitPrefix(y)),
           LAMBDA k : <<k>> \o KeysInOrder(ks \ {k}))

\* the defined values of a map, as a list
MapValues(map) ==
  Let(KeysInOrder({k \in DOMAIN map : map[k].t # "undef"}), LAMBDA ks :
    [i \in 1..Len(ks) |-> map[ks[i]]])

Movie_toJSON(o) ==
  [movieId |-> o.movieId, title |-> o.title, releaseDate |-> o.releaseDate,
   director |-> IF o.director.t = "obj" THEN o.director ELSE Absent,
   actors |-> IF o.hasActors THEN MapOf(MapValues(o.actors)) ELSE NoList]

\* a save that writes only the movies that have a director
Movie_saveAll_DirectedOnly(MI) ==
  Blob([k \in {x \in DOMAIN MI : MI[x].director.t = "obj"} |-> Movie_toJSON(MI[k])])

Movie_saveAll(MI) == Blob([k \in DOMAIN MI |-> Movie_toJSON(MI[k])])

\* a stored movie record as the argument of the constructor
Movie_rec2slots(rec) ==
  MovieSlots(rec.movieId, rec.title, rec.releaseDate, rec.director, Absent, rec.actors, NoList,
             Absent, Absent, Absent, Absent)

RECURSIVE Movie_retrieveLoop(_, _, _, _, _)
Movie_retrieveLoop(keys, recs, MI, PI, subs) ==
  IF keys = <<>> THEN MI
  ELSE Let(Movie_new(Movie_rec2slots(recs[Head(keys)]), MI, PI, subs), LAMBDA c :
         Movie_retrieveLoop(Tail(keys), recs,
                            IF c.ok THEN Put(MI, Head(keys), c.obj) ELSE MI, PI, subs))

\* yields [blob, MI]: the blob "movies" and the Movie.instances after the call
Movie_retrieveAll(blob, MI, PI, subs) ==
  IF ~blob.present THEN [blob |-> Blob(EmptyMap), MI |-> MI]
  ELSE [blob |-> blob,
        MI |-> Movie_retrieveLoop(KeysInOrder(DOMAIN blob.recs), blob.recs, MI, PI, subs)]

(***************************************************************************)
(* Person and Director (assignment6): storage management methods           *)
(***************************************************************************)
Person_add(cls, personId, name, directInstances) ==
  Let(Person_new(cls, Get(personId), Get(name), directInstances), LAMBDA c :
    IF c.ok THEN Put(directInstances, ToStr(Num(c.obj.personId)), c.obj) ELSE directInstances)

Person_toJSON(o) == [personId |-> Num(o.personId), name |-> o.name]

RECURSIVE Person_retrieveLoop(_, _, _, _)
Person_retrieveLoop(cls, keys, recs, instances) ==
  IF keys = <<>> THEN instances
  ELSE Let(Person_new(cls, Get(recs[Head(keys)].personId), Get(recs[Head(keys)].name), instances),
           LAMBDA c : Person_retrieveLoop(cls, Tail(keys), recs,
                        IF c.ok THEN Put(instances, Head(keys), c.obj) ELSE instances))

\* Person.saveAll: only the direct instances are written
Person_saveAll(PI) ==
  Blob([k \in {x \in DOMAIN PI : PI[x].cls = "Person"} |-> Person_toJSON(PI[k])])

\* if (!localStorage[ name]) localStorage[ name] = "{}"
InitBlob(blob) == IF blob.present THEN blob ELSE Blob(EmptyMap)

(***************************************************************************)
(* Book and Employee (assignment6): the check methods. Every class they    *)
(* instantiate and isIntegerOrIntegerString are imported by their modules. *)
(***************************************************************************)
BookCategoryEL == [TEXTBOOK |-> 1, BIOGRAPHY |-> 2, MAX |-> 2]
EmployeeCategoryEL == [MANAGER |-> 1, MAX |-> 1]

\* \w of a regular expression
IsWordChar(c) ==
  \/ IsDigit(c)
  \/ c \in {"A", "B", "C", "D", "E", "F", "G", "H", "I", "J", "K", "L", "M", "N", "O", "P", "Q",
            "R", "S", "T", "U", "V", "W", "X", "Y", "Z", "_",
            "a", "b", "c", "d", "e", "f", "g", "h", "i", "j", "k", "l", "m", "n", "o", "p", "q",
            "r", "s", "t", "u", "v", "w", "x", "y", "z"}

\* /\b\d{9}(\d|X)\b/.test( cs): nine digits and a digit or X somewhere, between word boundaries
MatchesIsbn(cs) ==
  \E i \in 1..Len(cs) :
    /\ i + 9 <= Len(cs)
    /\ \A j \in i..(i + 8) : IsDigit(cs[j])
    /\ IsDigit(cs[i + 9]) \/ cs[i + 9] = "X"
    /\ i = 1 \/ ~IsWordChar(cs[i - 1])
    /\ i + 9 = Len(cs) \/ ~IsWordChar(cs[i + 10])

Book_checkIsbn(isbn) ==
  IF ~Truthy(isbn) THEN Ret(CV.No)
  ELSE IF NotNonEmptyString(isbn) THEN Ret(CV.Range)
  ELSE IF ~MatchesIsbn(isbn.s) THEN Ret(CV.Pattern)
  ELSE Ret(CV.No)

Book_checkIsbnAsId(isbn, BI) ==
  Let(Book_checkIsbn(isbn), LAMBDA validationResult :
    IF IsNoViolation(validationResult)
    THEN IF ~Truthy(isbn) THEN Ret(CV.Mandatory)
         ELSE IF HasKey(BI, isbn) THEN Ret(CV.Uniqueness)
         ELSE Ret(CV.No)
    ELSE validationResult)

\* isIntegerOrIntegerString( x) of lib/util.mjs: Number.isInteger( parseInt( x))
Book_checkCategory(c) ==
  IF c = Undef THEN Ret(CV.No)
  ELSE Let(ParseInt(c), LAMBDA n :
         IF ~IsInteger(n) \/ n.n < 1 \/ n.n > BookCategoryEL.MAX THEN Ret(CV.Range)
         ELSE Ret(CV.No))

\* a subject area that comes with a category other than Textbook
Book_checkSubjectArea_AsRange(sA, c) ==
  Let(ParseInt(c), LAMBDA cat :
    IF StrictEq(cat, Num(BookCategoryEL.TEXTBOOK)) /\ ~Truthy(sA) THEN Ret(CV.Mandatory)
    ELSE IF Truthy(sA) /\ (~StrictEq(cat, Num(BookCategoryEL.TEXTBOOK)) \/ NotNonEmptyString(sA))
         THEN Ret(CV.Range)
    ELSE Ret(CV.No))

Book_checkSubjectArea(sA, c) ==
  Let(ParseInt(c), LAMBDA cat :
    IF StrictEq(cat, Num(BookCategoryEL.TEXTBOOK)) /\ ~Truthy(sA) THEN Ret(CV.Mandatory)
    ELSE IF ~StrictEq(cat, Num(BookCategoryEL.TEXTBOOK)) /\ Truthy(sA) THEN Ret(CV.Generic)
    ELSE IF Truthy(sA) /\ NotNonEmptyString(sA) THEN Ret(CV.Range)
    ELSE Ret(CV.No))

\* an 'about' check that admits the value for every category
Book_checkAbout_NoApplicability(a, c) ==
  IF Truthy(a) /\ NotNonEmptyString(a) THEN Ret(CV.Range) ELSE Ret(CV.No)

Book_checkAbout(a, c) ==
  Let(ParseInt(c), LAMBDA cat :
    IF StrictEq(cat, Num(BookCategoryEL.BIOGRAPHY)) /\ ~Truthy(a) THEN Ret(CV.Mandatory)
    ELSE IF ~StrictEq(cat, Num(BookCategoryEL.BIOGRAPHY)) /\ Truthy(a) THEN Ret(CV.Generic)
    ELSE IF Truthy(a) /\ NotNonEmptyString(a) THEN Ret(CV.Range)
    ELSE Ret(CV.No))

\* Number.isInteger( v) of the value itself: a string is no integer
Employee_checkCategory(v) ==
  IF ~Truthy(v) THEN Ret(CV.No)
  ELSE IF v.t # "num" \/ v.n < 1 \/ v.n > EmployeeCategoryEL.MAX THEN Ret(CV.Range)
  ELSE Ret(CV.No)

Employee_checkDepartment(d, c) ==
  Let(ParseInt(c), LAMBDA cat :
    IF StrictEq(cat, Num(EmployeeCategoryEL.MANAGER)) /\ ~Truthy(d) THEN Ret(CV.Mandatory)
    ELSE IF ~StrictEq(cat, Num(EmployeeCategoryEL.MANAGER)) /\ Truthy(d) THEN Ret(CV.Generic)
    ELSE IF Truthy(d) /\ NotNonEmptyString(d) THEN Ret(CV.Range)
    ELSE Ret(CV.No))

(***************************************************************************)
(* State. The assignment6 model classes, the library version in use and    *)
(* the local storage of the browser; page is the page that is open.        *)
(***************************************************************************)
VARIABLES Person_instances, Director_instances, Movie_instances, util, localStorage, page,
          Book_instances, Employee_instances, Author_instances, call, result, form

vars ==
  <<Person_instances, Director_instances, Movie_instances, util, localStorage, page,
    Book_instances, Employee_instances, Author_instances, call, result, form>>

\* Book.instances, Employee.instances and Author.instances; a call of a check method
\* (class, method, value, category) and what came of it; the forms of the movies page
checkVars == <<Book_instances, Employee_instances, Author_instances, call, result, form>>
NoCall == [cls |-> "", fn |-> "", a |-> Undef, c |-> Undef]
Pending == [thrown |-> FALSE, cls |-> ""]
\* a form of the movies page: the values of its controls (strings) and the set of
\* controls that hold a custom validity message; form holds the create form, the
\* update form, what the last click on a Save button came to, and the options of the
\* movie selection list of the update form
NoValue == Str(<<>>)
FreshForm ==
  [movieId |-> NoValue, title |-> NoValue, releaseDate |-> NoValue, selectDirector |-> NoValue,
   selectMovie |-> NoValue, category |-> NoValue, tvSeriesName |-> NoValue,
   episodeNo |-> NoValue, about |-> NoValue, invalid |-> {}]
NoForm == [create |-> FreshForm, update |-> FreshForm, outcome |-> "none", options |-> {}]
NoCheck ==
  /\ Book_instances = EmptyMap /\ Employee_instances = EmptyMap
  /\ Author_instances = EmptyMap /\ call = NoCall
  /\ result = Pending /\ form = NoForm

\* the instances maps of Person.subtypes
Subtypes == <<Director_instances>>

MaxId == 2

IdStr(i) == Str(NatToStr(i))
TitleA == Str(<<"A">>)
TitleB == Str(<<"B">>)
Date2000 == Str(<<"2", "0", "0", "0", "-", "0", "1", "-", "0", "1">>)
Date1800 == Str(<<"1", "8", "0", "0", "-", "0", "1", "-", "0", "1">>)
UnknownId == Str(<<"9">>)

\* IDs as the forms pass them (strings) and as test data and stored records do (numbers)
PersonIdInputs == {IdStr(i) : i \in 1..MaxId} \cup {Undef}
NameInputs == {TitleA, Str(<<>>)}
MovieIdInputs == {IdStr(i) : i \in 1..MaxId} \cup {Undef}
DirectorInputs == {IdStr(i) : i \in 1..MaxId} \cup {Num(i) : i \in 1..MaxId} \cup {Absent, UnknownId}
ActorListInputs == {NoList, Array(<<IdStr(1)>>), Array(<<UnknownId>>)}

\* the slots of the create form, then single deviations from a valid record
AddSlotInputs ==
  {MovieSlots(id, t, Date2000, Absent, d, NoList, NoList, Absent, Absent, Absent, Absent) :
     id \in MovieIdInputs, t \in {TitleA, TitleB}, d \in DirectorInputs}
  \cup {MovieSlots(IdStr(1), t, rd, Absent, IdStr(1), NoList, a, c, Absent, Absent, Absent) :
          t \in {TitleA, Str(<<>>)}, rd \in {Date2000, Date1800}, a \in ActorListInputs,
          c \in {Absent, Num(MovieCategoryEL.TVSERIESEPISODE)}}

UpdateSlotInputs ==
  {UpdateSlots(id, t, Absent, NoList, NoList, d) :
     id \in {IdStr(i) : i \in 1..MaxId}, t \in {TitleA, TitleB}, d \in DirectorInputs}
  \cup {UpdateSlots(IdStr(1), TitleA, rd, add, rem, Absent) :
          rd \in {Absent, Date1800}, add \in {NoList, Array(<<IdStr(1)>>)},
          rem \in {NoList, Array(<<IdStr(1)>>)}}

InitA6 ==
  /\ Person_instances = EmptyMap
  /\ Director_instances = EmptyMap
  /\ Movie_instances = EmptyMap
  /\ util \in {"data", "refs"}
  /\ localStorage = NoStorage
  /\ page = "session"
  /\ NoCheck

A6_PersonAdd ==
  \E id \in PersonIdInputs, n \in NameInputs :
    /\ Person_instances' = Person_add("Person", id, n, Person_instances)
    /\ UNCHANGED <<Director_instances, Movie_instances, util, localStorage, page, checkVars>>

A6_DirectorAdd ==
  \E id \in PersonIdInputs, n \in NameInputs :
    /\ Director_instances' = Person_add("Director", id, n, Director_instances)
    /\ UNCHANGED <<Person_instances, Movie_instances, util, localStorage, page, checkVars>>

MovieAdd(slots) ==
  /\ Movie_instances' = Movie_add(slots, Movie_instances, Person_instances, Subtypes).MI
  /\ UNCHANGED <<Person_instances, Director_instances, util, localStorage, page, checkVars>>

MovieUpdate(slots) ==
  /\ Movie_instances' = Movie_update(util, slots, Movie_instances, Person_instances, Subtypes).MI
  /\ UNCHANGED <<Person_instances, Director_instances, util, localStorage, page, checkVars>>

MovieDestroy(id) ==
  /\ Movie_instances' = Movie_destroy(id, Movie_instances).MI
  /\ UNCHANGED <<Person_instances, Director_instances, util, localStorage, page, checkVars>>

A6_MovieAdd == \E slots \in AddSlotInputs : MovieAdd(slots)
A6_MovieUpdate == \E slots \in UpdateSlotInputs : MovieUpdate(slots)
A6_MovieDestroy == \E id \in MovieIdInputs : MovieDestroy(id)

(***************************************************************************)
(* Person.destroy (assignment6). Person.mjs imports cloneObject and five   *)
(* constraint violation classes; Movie and Actor are names of other        *)
(* modules that it does not import. No Actor object is part of the state:  *)
(* the loop over Actor.instances has nothing to visit.                     *)
(***************************************************************************)
PersonScope ==
  {"cloneObject", CV.No, CV.Mandatory, CV.Range, CV.Uniqueness, CV.ReferentialIntegrity,
   "Person", "parseInt", "Number", "Object", "JSON", "console", "localStorage", "alert"}

\* the loop over Movie.instances: [MI, thrown]
RECURSIVE Person_destroyMovieRefs(_, _, _)
Person_destroyMovieRefs(personId, keys, MI) ==
  IF keys = <<>> THEN [MI |-> MI, thrown |-> FALSE]
  ELSE Let(MI[Head(keys)], LAMBDA movie :
         \* movie.director.personId
         IF Get(movie.director).t # "obj" THEN [MI |-> MI, thrown |-> TRUE]
         ELSE Let(IF StrictEq(Num(movie.director.n), personId)
                  THEN [movie EXCEPT !.director = Absent] ELSE movie, LAMBDA m :
                Let(Movie_removeActor(m, personId), LAMBDA r :
                  IF r.ok THEN Person_destroyMovieRefs(personId, Tail(keys), Put(MI, Head(keys), r.obj))
                  ELSE [MI |-> Put(MI, Head(keys), m), thrown |-> TRUE])))

\* Person.destroy( personId): [PI, DI, MI, thrown]; DI is the instances map of the subtype
Person_destroy(personId, PI, DI, MI) ==
  IF "Movie" \notin PersonScope THEN [PI |-> PI, DI |-> DI, MI |-> MI, thrown |-> TRUE]
  ELSE Let(Person_destroyMovieRefs(personId, KeysInOrder(DOMAIN MI), MI), LAMBDA r :
         IF r.thrown \/ "Actor" \notin PersonScope
         THEN [PI |-> PI, DI |-> DI, MI |-> r.MI, thrown |-> TRUE]
         \* the log line reads person.name
         ELSE [PI |-> Del(PI, ToStr(personId)), DI |-> Del(DI, ToStr(personId)), MI |-> r.MI,
               thrown |-> ~HasKey(PI, personId)])

A6_PersonDestroy ==
  \E id \in PersonIdInputs :
    \E r \in {Person_destroy(id, Person_instances, Director_instances, Movie_instances)} :
      /\ Person_instances' = r.PI
      /\ Director_instances' = r.DI
      /\ Movie_instances' = r.MI
      /\ UNCHANGED <<util, localStorage, page, checkVars>>

NextA6 ==
  \/ A6_PersonAdd \/ A6_DirectorAdd \/ A6_MovieAdd \/ A6_MovieUpdate \/ A6_MovieDestroy
  \/ A6_PersonDestroy

SpecA6 == InitA6 /\ [][NextA6]_vars

(***************************************************************************)
(* Properties of the assignment6 model classes (SpecA6)                    *)
(***************************************************************************)
\* the objects a director can be assigned to: a new one and every stored movie
MovieObjects == {NewMovieObject} \cup {Movie_instances[k] : k \in DOMAIN Movie_instances}

\* the person IDs of all objects in Person.instances and in the subtype populations
KnownPersonIds ==
  {Person_instances[k].personId : k \in DOMAIN Person_instances}
  \cup {Director_instances[k].personId : k \in DOMAIN Director_instances}

\* C5: whenever checkDirector reports no violation for a non-empty ID reference i, the
\* director setter leaves the movie with a reference to the person whose personId is i,
\* also when that person exists only in a subtype population.
C5_AcceptedDirectorIsThatPerson ==
  \A o \in MovieObjects : \A i \in DirectorInputs :
    (Truthy(i) /\ IsNoViolation(Movie_checkDirector(i, Person_instances, Subtypes)))
      => /\ Movie_set_director(o, i, Person_instances, Subtypes).ok
         /\ Movie_set_director(o, i, Person_instances, Subtypes).obj.director = Obj(ParseInt(i).n)

\* C6: assigning a well-formed person ID that no person and no subtype instance has
\* raises a referential integrity violation and leaves the object as it was; Movie.add
\* with such a director_id leaves Movie.instances as it was.
C6_UnknownDirectorIsRejected ==
  \A i \in DirectorInputs :
    (Truthy(i) /\ IsNoViolation(Person_checkPersonId(i)) /\ ParseInt(i).n \notin KnownPersonIds)
      => /\ \A o \in MovieObjects :
              Movie_set_director(o, i, Person_instances, Subtypes) = FailAt(CV.ReferentialIntegrity, o)
         /\ \A slots \in AddSlotInputs :
              slots.director_id = i
                => Movie_add(slots, Movie_instances, Person_instances, Subtypes).MI = Movie_instances

\* a stored movie has a director, and an unknown ID is assigned to it resp. passed to add
C6_Witness ==
  /\ \E k \in DOMAIN Movie_instances :
       /\ Movie_instances[k].director.t = "obj"
       /\ Movie_set_director(Movie_instances[k], UnknownId, Person_instances, Subtypes)
            = FailAt(CV.ReferentialIntegrity, Movie_instances[k])
  /\ \E slots \in AddSlotInputs :
       /\ slots.director_id = UnknownId
       /\ ~HasKey(Movie_instances, slots.movieId)
       /\ IsNoViolation(Movie_checkMovieIdAsId(slots.movieId, Movie_instances))
       /\ Movie_add(slots, Movie_instances, Person_instances, Subtypes).MI = Movie_instances

\* C9: Movie.add with a movieId that is a key of Movie.instances leaves Movie.instances
\* as it is: no record is added and the existing one keeps its values.
C9_AddWithExistingIdChangesNothing ==
  \A slots \in AddSlotInputs :
    HasKey(Movie_instances, Get(slots.movieId))
      => Movie_add(slots, Movie_instances, Person_instances, Subtypes).MI = Movie_instances

\* an add whose movieId is taken, with a title other than the stored one and all else valid
C9_Witness ==
  \E slots \in AddSlotInputs :
    /\ HasKey(Movie_instances, Get(slots.movieId))
    /\ Movie_instances[ToStr(slots.movieId)].title # slots.title
    /\ IsNoViolation(Movie_checkTitle(slots.title))
    /\ IsNoViolation(Movie_checkDirector(slots.director_id, Person_instances, Subtypes))
    /\ Movie_add(slots, Movie_instances, Person_instances, Subtypes).MI = Movie_instances

(***************************************************************************)
(* The movies page (v/movies.mjs). Loading the page starts from empty      *)
(* instances maps and runs Person.retrieveAll and Movie.retrieveAll; the   *)
(* page imports neither Director nor Actor, so Person.subtypes is empty.   *)
(* Its Save and Delete handlers call Movie.add, Movie.update and           *)
(* Movie.destroy; leaving the page raises beforeunload. The people blob is *)
(* what Person.saveAll has written on the persons page, if anything.       *)
(***************************************************************************)
RECURSIVE PeopleUpTo(_)
PeopleUpTo(n) == IF n = 0 THEN EmptyMap ELSE Person_add("Person", IdStr(n), TitleA, PeopleUpTo(n - 1))

\* titles at the length limit of checkTitle, beyond it, and a blank one
Title120 == Str([i \in 1..120 |-> "a"])
Title121 == Str([i \in 1..121 |-> "a"])
TitleBlank == Str(<<" ">>)

PageAddInputs ==
  {MovieSlots(id, TitleA, Date2000, Absent, d, NoList, NoList, Absent, Absent, Absent, Absent) :
     id \in MovieIdInputs, d \in {IdStr(1), Absent, UnknownId}}
  \cup {MovieSlots(IdStr(1), t, Date2000, Absent, IdStr(1), NoList, NoList, Absent, Absent,
                   Absent, Absent) : t \in {Title120, Title121, TitleBlank}}

PageUpdateInputs ==
  {UpdateSlots(id, t, Absent, NoList, NoList, d) :
     id \in {IdStr(i) : i \in 1..MaxId}, t \in {TitleA, TitleB}, d \in {IdStr(1), Absent}}
  \cup {UpdateSlots(IdStr(1), t, Absent, NoList, NoList, Absent) :
          t \in {Title120, Title121, TitleBlank}}

InitPage ==
  /\ Person_instances = EmptyMap
  /\ Director_instances = EmptyMap
  /\ Movie_instances = EmptyMap
  /\ util \in {"data", "refs"}
  /\ localStorage \in {[NoStorage EXCEPT !.people = b] :
                         b \in {NoBlob, Person_saveAll(PeopleUpTo(MaxId))}}
  /\ page = "closed"
  /\ NoCheck

PageLoad ==
  /\ page = "closed"
  /\ \E people \in {InitBlob(localStorage.people)} :
       \E PI \in {Person_retrieveLoop("Person", KeysInOrder(DOMAIN people.recs), people.recs, EmptyMap)} :
         \E m \in {Movie_retrieveAll(localStorage.movies, EmptyMap, PI, <<>>)} :
           /\ Person_instances' = PI
           /\ Movie_instances' = m.MI
           /\ localStorage' = [localStorage EXCEPT !.people = people, !.movies = m.blob]
  /\ page' = "open"
  /\ UNCHANGED <<Director_instances, util, checkVars>>

PageAdd == page = "open" /\ \E slots \in PageAddInputs : MovieAdd(slots)
PageUpdate == page = "open" /\ \E slots \in PageUpdateInputs : MovieUpdate(slots)
PageDestroy == page = "open" /\ \E id \in MovieIdInputs : MovieDestroy(id)

\* beforeunload: Movie.saveAll
PageUnload ==
  /\ page = "open"
  /\ localStorage' = [localStorage EXCEPT !.movies = Movie_saveAll(Movie_instances)]
  /\ page' = "closed"
  /\ UNCHANGED <<Person_instances, Director_instances, Movie_instances, util, checkVars>>

NextPage == PageLoad \/ PageAdd \/ PageUpdate \/ PageDestroy \/ PageUnload

SpecPage == InitPage /\ [][NextPage]_vars

\* C8: Movie.add, Movie.update and Movie.destroy leave the blob "movies" alone; loading
\* the page only creates it, empty, when it is missing; and once the page has been left
\* the blob holds exactly one record for every key of Movie.instances.
C8_MoviesBlobWrittenOnUnloadOnly ==
  /\ [][(PageAdd \/ PageUpdate \/ PageDestroy) => localStorage'.movies = localStorage.movies]_vars
  /\ [][PageLoad => localStorage'.movies = InitBlob(localStorage.movies)]_vars
  /\ [](page = "closed" /\ localStorage.movies.present
          => /\ DOMAIN localStorage.movies.recs = DOMAIN Movie_instances
             /\ \A k \in DOMAIN Movie_instances :
                  localStorage.movies.recs[k].movieId = Movie_instances[k].movieId)

\* the page was left with several movies, one of them without a director
C8_Witness ==
  /\ page = "closed"
  /\ localStorage.movies.present
  /\ Cardinality(DOMAIN localStorage.movies.recs) > 1
  /\ \E k \in DOMAIN Movie_instances : Movie_instances[k].director.t # "obj"
  /\ \E k \in DOMAIN Movie_instances : Movie_instances[k].director.t = "obj"

(***************************************************************************)
(* Calls of the check methods: one call, of any check method of Movie,     *)
(* Book or Employee with any value and category, in a session that holds   *)
(* some persons, at most one movie and at most one book.                   *)
(***************************************************************************)
Isbn1 == Str(<<"0", "5", "5", "3", "3", "4", "5", "8", "4", "2">>)
IsbnX == Str(<<" ", "0", "5", "5", "3", "3", "4", "5", "8", "4", "X">>)
Isbn11 == Str(<<"0", "5", "5", "3", "3", "4", "5", "8", "4", "2", "1">>)

MovieChecks ==
  {"checkMovieID", "checkMovieIdAsId", "checkTitle", "checkReleaseDate", "checkDirector",
   "checkCategory", "checkTvSeriesName", "checkEpisodeNo", "checkAbout"}
BookChecks == {"checkIsbn", "checkIsbnAsId", "checkCategory", "checkSubjectArea", "checkAbout"}
EmployeeChecks == {"checkCategory", "checkDepartment"}

CheckValues == {Undef, Str(<<>>), Str(<<" ">>), Num(0), Num(1), Num(-1), IdStr(1), UnknownId, TitleA}
CheckCategories == {Undef, Str(<<>>), Num(0), Num(1), Num(2), Num(3), IdStr(1), IdStr(2), TitleA}

\* the day of the Unix epoch, the earliest admitted release date and the day before it
Date1970 == Str(<<"1", "9", "7", "0", "-", "0", "1", "-", "0", "1">>)
DateBound == Str(<<"1", "8", "9", "5", "-", "1", "2", "-", "2", "8">>)
DateBeforeBound == Str(<<"1", "8", "9", "5", "-", "1", "2", "-", "2", "7">>)

CheckCalls ==
  {[cls |-> "Movie", fn |-> f, a |-> a, c |-> c] :
     f \in MovieChecks, a \in CheckValues \cup {Date2000, Date1800}, c \in CheckCategories}
  \cup {[cls |-> "Movie", fn |-> "checkReleaseDate", a |-> a, c |-> Undef] :
          a \in {Date1970, DateBound, DateBeforeBound}}
  \cup {[cls |-> "Book", fn |-> f, a |-> a, c |-> c] :
          f \in BookChecks, a \in CheckValues \cup {Isbn1, IsbnX, Isbn11}, c \in CheckCategories}
  \cup {[cls |-> "Employee", fn |-> f, a |-> a, c |-> c] :
          f \in EmployeeChecks, a \in CheckValues, c \in CheckCategories}

InitCheck ==
  /\ Person_instances = PeopleUpTo(MaxId)
  /\ Director_instances = EmptyMap
  /\ Movie_instances \in
       {EmptyMap,
        Movie_add(MovieSlots(IdStr(1), TitleA, Date2000, Absent, IdStr(1), NoList, NoList,
                             Absent, Absent, Absent, Absent),
                  EmptyMap, PeopleUpTo(MaxId), <<>>).MI}
  /\ util = "data"
  /\ localStorage = NoStorage
  /\ page = "session"
  /\ Book_instances \in {EmptyMap, [k \in {Isbn1.s} |-> [isbn |-> Isbn1]]}
  /\ Employee_instances = EmptyMap
  /\ Author_instances = EmptyMap
  /\ form = NoForm
  /\ call \in CheckCalls
  /\ result = Pending

MovieCheck ==
  /\ call.cls = "Movie" /\ result = Pending
  /\ result' =
       CASE call.fn = "checkMovieID" -> Movie_checkMovieID(call.a)
         [] call.fn = "checkMovieIdAsId" -> Movie_checkMovieIdAsId(call.a, Movie_instances)
         [] call.fn = "checkTitle" -> Movie_checkTitle(call.a)
         [] call.fn = "checkReleaseDate" -> Movie_checkReleaseDate(call.a)
         [] call.fn = "checkDirector" -> Movie_checkDirector(call.a, Person_instances, Subtypes)
         [] call.fn = "checkCategory" -> Movie_checkCategory(call.c)
         [] call.fn = "checkTvSeriesName" -> Movie_checkTvSeriesName(call.a, call.c)
         [] call.fn = "checkEpisodeNo" -> Movie_checkEpisodeNo(call.a, call.c)
         [] OTHER -> Movie_checkAbout(call.a, call.c, Person_instances, Subtypes)
  /\ UNCHANGED <<Person_instances, Director_instances, Movie_instances, util, localStorage, page,
                 Book_instances, Employee_instances, Author_instances, call, form>>

BookCheck ==
  /\ call.cls = "Book" /\ result = Pending
  /\ result' =
       CASE call.fn = "checkIsbn" -> Book_checkIsbn(call.a)
         [] call.fn = "checkIsbnAsId" -> Book_checkIsbnAsId(call.a, Book_instances)
         [] call.fn = "checkCategory" -> Book_checkCategory(call.c)
         [] call.fn = "checkSubjectArea" -> Book_checkSubjectArea(call.a, call.c)
         [] OTHER -> Book_checkAbout(call.a, call.c)
  /\ UNCHANGED <<Person_instances, Director_instances, Movie_instances, util, localStorage, page,
                 Book_instances, Employee_instances, Author_instances, call, form>>

EmployeeCheck ==
  /\ call.cls = "Employee" /\ result = Pending
  /\ result' = IF call.fn = "checkCategory" THEN Employee_checkCategory(call.c)
               ELSE Employee_checkDepartment(call.a, call.c)
  /\ UNCHANGED <<Person_instances, Director_instances, Movie_instances, util, localStorage, page,
                 Book_instances, Employee_instances, Author_instances, call, form>>

NextCheck == MovieCheck \/ BookCheck \/ EmployeeCheck

SpecCheck == InitCheck /\ [][NextCheck]_vars

\* C1: every check method of Movie returns a constraint violation object, whatever the
\* value and the category, and raises no error itself.
C1_MovieChecksReturn ==
  (call.cls = "Movie" /\ result # Pending)
    => /\ ~result.thrown
       /\ result.cls \in {CV.No, CV.Mandatory, CV.Range, CV.Interval, CV.Uniqueness,
                          CV.StringLength, CV.Pattern, CV.FrozenValue, CV.ReferentialIntegrity}

\* a segment value (subject area, about, department) with a category that does not admit it
SegmentValueNotAdmitted ==
  /\ Truthy(call.a)
  /\ \/ call.cls = "Book" /\ call.fn = "checkSubjectArea"
          /\ ~StrictEq(ParseInt(call.c), Num(BookCategoryEL.TEXTBOOK))
     \/ call.cls = "Book" /\ call.fn = "checkAbout"
          /\ ~StrictEq(ParseInt(call.c), Num(BookCategoryEL.BIOGRAPHY))
     \/ call.cls = "Employee" /\ call.fn = "checkDepartment"
          /\ ~StrictEq(ParseInt(call.c), Num(EmployeeCategoryEL.MANAGER))

\* C2 (as stated): every check method of Book and Employee yields no violation or one of
\* the eight listed violation classes.
C2_ResultInClosedSet ==
  (call.cls \in {"Book", "Employee"} /\ result # Pending)
    => /\ ~result.thrown
       /\ result.cls \in {CV.No, CV.Mandatory, CV.Range, CV.Interval, CV.Uniqueness,
                          CV.StringLength, CV.Pattern, CV.FrozenValue, CV.ReferentialIntegrity}

\* C2 (amended): every check method of Book and Employee yields no violation, one of the
\* eight listed violation classes or, exactly when a segment value comes with a category
\* that does not admit it, the general ConstraintViolation.
C2_ResultInClosedSetOrGeneral ==
  (call.cls \in {"Book", "Employee"} /\ result # Pending)
    => /\ ~result.thrown
       /\ result.cls \in {CV.No, CV.Mandatory, CV.Range, CV.Interval, CV.Uniqueness,
                          CV.StringLength, CV.Pattern, CV.FrozenValue, CV.ReferentialIntegrity,
                          CV.Generic}
       /\ result.cls = CV.Generic <=> SegmentValueNotAdmitted

\* Book.checkSubjectArea was called with a subject area and the category Biography
C2_Witness ==
  /\ call.cls = "Book" /\ call.fn = "checkSubjectArea"
  /\ call.a = TitleA /\ call.c = Num(BookCategoryEL.BIOGRAPHY)
  /\ result = Ret(CV.Generic)

(***************************************************************************)
(* Movie (assignment5). Its check methods for movieId, title, releaseDate  *)
(* and director and the setters of the first three are, statement by       *)
(* statement, those of assignment6 above. The director and actor setters   *)
(* differ: they keep the back references person.directedMovies and         *)
(* person.playedMovies. Person.mjs of assignment5 is not among the         *)
(* sources: a person is taken to be [cls, personId, name, directedMovies,  *)
(* playedMovies], the two maps given by their sets of keys and empty in a  *)
(* new person, and its ID reference check to be that of assignment6 with   *)
(* no subtypes. A setter yields [ok, exc, obj, PI]: PI is Person.instances *)
(* with the back references as the setter left them.                       *)
(***************************************************************************)
A5_Person(personId, name) ==
  [cls |-> "Person", personId |-> personId, name |-> name, directedMovies |-> {}, playedMovies |-> {}]

A5R(r, PI) == [ok |-> r.ok, exc |-> r.exc, obj |-> r.obj, PI |-> PI]

\* the key this._movieId denotes, and the key of the person an object reference points to
A5_movieKey(o) == ToStr(Get(o.movieId))
A5_personKey(ref) == NatToStr(ref.n)

\* the director setter without the entry in the new director's directedMovies
A5_set_director_NoBackRef(o, d, PI) ==
  IF ~Truthy(d) THEN A5R(FailAt("TypeError", o), PI)
  ELSE Let(Movie_checkDirector(IF d.t # "obj" THEN d ELSE Num(d.n), PI, <<>>), LAMBDA validationResult :
         IF IsNoViolation(validationResult)
         THEN A5R(Ok([o EXCEPT !.director = PersonRef(PI, IF d.t # "obj" THEN d ELSE Num(d.n))]), PI)
         ELSE A5R(FailAt(validationResult.cls, o), PI))

\* a director setter that leaves the entry of the previous director in place
A5_unlinkDirector_Keep(o, PI) == PI

\* delete person.directedMovies[ key] for the current director of o, if it has one
A5_unlinkDirector(o, PI) ==
  IF Get(o.director).t = "obj"
  THEN [PI EXCEPT ![A5_personKey(o.director)].directedMovies = @ \ {A5_movieKey(o)}]
  ELSE PI

A5_set_director(o, d, PI) ==
  IF ~Truthy(d)
  \* delete this._director.directedMovies[ ...]: a TypeError unless there is a director
  THEN IF Get(o.director).t # "obj" THEN A5R(FailAt("TypeError", o), PI)
       ELSE A5R(Ok([o EXCEPT !.director = Absent]), A5_unlinkDirector(o, PI))
  ELSE Let(IF d.t # "obj" THEN d ELSE Num(d.n), LAMBDA director_id :
         Let(Movie_checkDirector(director_id, PI, <<>>), LAMBDA validationResult :
           IF IsNoViolation(validationResult)
           THEN A5R(Ok([o EXCEPT !.director = PersonRef(PI, director_id)]),
                    [A5_unlinkDirector(o, PI) EXCEPT
                       ![ToStr(director_id)].directedMovies = @ \cup {A5_movieKey(o)}])
           ELSE A5R(FailAt(validationResult.cls, o), PI)))

A5_checkActor(actor_id, PI) ==
  IF ~Truthy(actor_id) THEN Ret(CV.No) ELSE Person_checkPersonIdAsIdRef(actor_id, PI, <<>>)

\* a.personId of an object reference, parseInt( a) of anything else
A5_actorId(a) == IF a.t # "obj" THEN ParseInt(a) ELSE Num(a.n)

A5_addActor(o, a, PI) ==
  Let(A5_actorId(a), LAMBDA actor_id :
    Let(A5_checkActor(actor_id, PI), LAMBDA validationResult :
      IF Truthy(actor_id) /\ IsNoViolation(validationResult)
      THEN IF ~o.hasActors THEN A5R(FailAt("TypeError", o), PI)
           ELSE A5R(Ok([o EXCEPT !.actors = Put(@, ToStr(actor_id), PersonRef(PI, actor_id))]),
                    [PI EXCEPT ![ToStr(actor_id)].playedMovies = @ \cup {A5_movieKey(o)}])
      \* throw validationResult: for an empty actor_id it is a NoConstraintViolation
      ELSE A5R(FailAt(validationResult.cls, o), PI)))

A5_removeActor(o, a, PI) ==
  Let(A5_actorId(a), LAMBDA actor_id :
    Let(A5_checkActor(actor_id, PI), LAMBDA validationResult :
      IF ~Truthy(actor_id) THEN A5R(Ok(o), PI)
      ELSE IF ~IsNoViolation(validationResult) THEN A5R(FailAt(validationResult.cls, o), PI)
      \* this._actors[ actor_id].playedMovies: the movie must have this actor
      ELSE IF ~o.hasActors \/ ~HasKey(o.actors, actor_id) THEN A5R(FailAt("TypeError", o), PI)
      ELSE A5R(Ok([o EXCEPT !.actors = Del(@, ToStr(actor_id))]),
               [PI EXCEPT ![A5_personKey(o.actors[ToStr(actor_id)])].playedMovies
                            = @ \ {A5_movieKey(o)}])))

\* addActor resp. removeActor (add = TRUE resp. FALSE) for every element, up to the first throw
RECURSIVE A5_eachActor(_, _, _, _)
A5_eachActor(add, r, items, PI) ==
  IF ~r.ok \/ items = <<>> THEN A5R(r, PI)
  ELSE Let(IF add THEN A5_addActor(r.obj, Head(items), PI) ELSE A5_removeActor(r.obj, Head(items), PI),
           LAMBDA n : A5_eachActor(add, n, Tail(items), n.PI))

A5_set_actors(o, a, PI) ==
  A5_eachActor(TRUE, Ok([o EXCEPT !.hasActors = TRUE, !.actors = EmptyMap]), a.items, PI)

\* the i-th assignment of the constructor ({movieId, title, releaseDate, director,
\* director_id, actors, actorsIdRef})
A5_new_slot(i, o, slots, MI, PI) ==
  CASE i = 1 -> A5R(Movie_set_movieId(o, Get(slots.movieId), MI), PI)
    [] i = 2 -> A5R(Movie_set_title(o, Get(slots.title)), PI)
    [] i = 3 -> A5R(Movie_set_releaseDate(o, Get(slots.releaseDate)), PI)
    [] i = 4 -> A5_set_director(o, OrElse(Get(slots.director), Get(slots.director_id)), PI)
    [] OTHER -> IF slots.actors.kind # "absent" \/ slots.actorsIdRef.kind # "absent"
                THEN A5_set_actors(o, IF slots.actors.kind # "absent" THEN slots.actors
                                      ELSE slots.actorsIdRef, PI)
                ELSE A5R(Ok(o), PI)

RECURSIVE A5_new_from(_, _, _, _)
A5_new_from(i, r, slots, MI) ==
  IF ~r.ok \/ i > 5 THEN r
  ELSE A5_new_from(i + 1, A5_new_slot(i, r.obj, slots, MI, r.PI), slots, MI)

A5_new(slots, MI, PI) == A5_new_from(1, A5R(Ok(NewMovieObject), PI), slots, MI)

\* Movie.add, Movie.update, Movie.destroy yield [MI, PI, thrown]
A5_add(slots, MI, PI) ==
  Let(A5_new(slots, MI, PI), LAMBDA c :
    [MI |-> IF c.ok THEN Put(MI, ToStr(c.obj.movieId), c.obj) ELSE MI, PI |-> c.PI,
     thrown |-> FALSE])

A5_update_slot(i, o, slots, PI) ==
  CASE i = 1 -> IF Truthy(slots.title) /\ ~StrictEq(Get(o.title), slots.title)
                THEN A5R(Movie_set_title(o, slots.title), PI) ELSE A5R(Ok(o), PI)
    \* movie.releaseDate !== new Date( releaseDate): a string is never a Date object
    [] i = 2 -> IF Truthy(slots.releaseDate)
                THEN A5R(Movie_set_releaseDate(o, slots.releaseDate), PI) ELSE A5R(Ok(o), PI)
    [] i = 3 -> IF slots.actorsIdRefsToAdd.kind # "absent"
                THEN A5_eachActor(TRUE, Ok(o), slots.actorsIdRefsToAdd.items, PI) ELSE A5R(Ok(o), PI)
    [] i = 4 -> IF slots.actorsIdRefsToRemove.kind # "absent"
                THEN A5_eachActor(FALSE, Ok(o), slots.actorsIdRefsToRemove.items, PI)
                ELSE A5R(Ok(o), PI)
    [] OTHER -> IF ~Truthy(slots.director_id) THEN A5R(Ok(o), PI)
                ELSE IF Get(o.director).t # "obj" THEN A5R(FailAt("TypeError", o), PI)
                ELSE IF ~StrictEq(Num(o.director.n), slots.director_id)
                     THEN A5_set_director(o, slots.director_id, PI)
                ELSE A5R(Ok(o), PI)

RECURSIVE A5_update_from(_, _, _)
A5_update_from(i, r, slots) ==
  IF ~r.ok \/ i > 5 THEN r
  ELSE A5_update_from(i + 1, A5_update_slot(i, r.obj, slots, r.PI), slots)

A5_update(variant, slots, MI, PI) ==
  IF ~HasKey(MI, slots.movieId) THEN [MI |-> MI, PI |-> PI, thrown |-> TRUE]
  ELSE Let(ToStr(slots.movieId), LAMBDA key :
         Let(A5_update_from(1, A5R(Ok(MI[key]), PI), slots), LAMBDA r :
           [MI |-> Put(MI, key, IF r.ok THEN r.obj ELSE cloneObject(variant, MI[key], r.obj)),
            PI |-> r.PI, thrown |-> FALSE]))

A5_destroy(movieId, MI, PI) ==
  IF ~HasKey(MI, movieId) THEN [MI |-> MI, PI |-> PI, thrown |-> FALSE]
  \* movie.toString(): this.director.toString() needs a director object
  ELSE IF Get(MI[ToStr(movieId)].director).t # "obj" THEN [MI |-> MI, PI |-> PI, thrown |-> TRUE]
  ELSE [MI |-> Del(MI, ToStr(movieId)),
        PI |-> [PI EXCEPT ![A5_personKey(MI[ToStr(movieId)].director)].directedMovies
                            = @ \ {ToStr(movieId)}],
        thrown |-> FALSE]

(***************************************************************************)
(* Movie (assignment5): toJSON, saveAll, retrieveAll. A stored record is a *)
(* map from property names to values; the constructor reads the names of   *)
(* its parameter list from it.                                             *)
(***************************************************************************)
\* the integers parseInt( key) of the keys of this.actors, in the order of Object.keys
A5_actorIds(o) ==
  Let(KeysInOrder(DOMAIN o.actors), LAMBDA ks : [i \in 1..Len(ks) |-> ParseInt(Str(ks[i]))])

A5_toJSON(o) ==
  [p \in {q \in {"movieId", "title", "releaseDate", "director_id", "actorsIdRefs"} :
            CASE q = "movieId" -> o.movieId.t # "absent"
              [] q = "title" -> o.title.t # "absent"
              [] q = "releaseDate" -> o.releaseDate.t # "absent"
              [] q = "director_id" -> o.director.t = "obj"
              [] OTHER -> o.hasActors} |->
     CASE p = "movieId" -> o.movieId
       [] p = "title" -> o.title
       [] p = "releaseDate" -> o.releaseDate
       [] p = "director_id" -> Num(o.director.n)
       [] OTHER -> Array(A5_actorIds(o))]

A5_saveAll(MI) == Blob([k \in DOMAIN MI |-> A5_toJSON(MI[k])])

\* the value resp. the list a record holds under a name
A5_prop(rec, name) == IF name \in DOMAIN rec THEN rec[name] ELSE Absent
A5_list(rec, name) == IF name \in DOMAIN rec THEN rec[name] ELSE NoList

A5_rec2slots(rec) ==
  MovieSlots(A5_prop(rec, "movieId"), A5_prop(rec, "title"), A5_prop(rec, "releaseDate"),
             A5_prop(rec, "director"), A5_prop(rec, "director_id"),
             A5_list(rec, "actors"), A5_list(rec, "actorsIdRef"), Absent, Absent, Absent, Absent)

\* yields [MI, PI]
RECURSIVE A5_retrieveLoop(_, _, _, _)
A5_retrieveLoop(keys, recs, MI, PI) ==
  IF keys = <<>> THEN [MI |-> MI, PI |-> PI]
  ELSE Let(A5_new(A5_rec2slots(recs[Head(keys)]), MI, PI), LAMBDA c :
         A5_retrieveLoop(Tail(keys), recs, IF c.ok THEN Put(MI, Head(keys), c.obj) ELSE MI, c.PI))

\* yields [blob, MI, PI]
A5_retrieveAll(blob, MI, PI) ==
  Let(A5_retrieveLoop(KeysInOrder(DOMAIN blob.recs), blob.recs, MI, PI), LAMBDA r :
    [blob |-> InitBlob(blob), MI |-> r.MI, PI |-> r.PI])

(***************************************************************************)
(* A session of the assignment5 application: persons are created, movies   *)
(* are added, updated and destroyed.                                       *)
(***************************************************************************)
A5_AddInputs ==
  {MovieSlots(id, TitleA, Date2000, Absent, d, NoList, a, Absent, Absent, Absent, Absent) :
     id \in MovieIdInputs, d \in {IdStr(i) : i \in 1..MaxId} \cup {Absent, UnknownId},
     a \in ActorListInputs}

A5_UpdateInputs ==
  {UpdateSlots(id, t, Absent, add, rem, d) :
     id \in {IdStr(i) : i \in 1..MaxId}, t \in {TitleB, Str(<<" ">>)},
     add \in {NoList, Array(<<IdStr(MaxId)>>)}, rem \in {NoList, Array(<<IdStr(1)>>)},
     d \in {Absent, IdStr(MaxId), UnknownId}}

\* the persons as a fresh page loads them
A5_FreshPersons(PI) == [k \in DOMAIN PI |-> A5_Person(PI[k].personId, PI[k].name)]

InitA5 ==
  /\ Person_instances = EmptyMap
  /\ Director_instances = EmptyMap
  /\ Movie_instances = EmptyMap
  /\ util \in {"data", "refs"}
  /\ localStorage = NoStorage
  /\ page = "session"
  /\ NoCheck

A5_PersonAdd ==
  \E i \in 1..MaxId :
    /\ ~HasKey(Person_instances, Num(i))
    /\ Person_instances' = Put(Person_instances, NatToStr(i), A5_Person(i, TitleA))
    /\ UNCHANGED <<Director_instances, Movie_instances, util, localStorage, page, checkVars>>

A5_MovieAddOf(inputs) ==
  \E slots \in inputs : \E r \in {A5_add(slots, Movie_instances, Person_instances)} :
    /\ Movie_instances' = r.MI
    /\ Person_instances' = r.PI
    /\ UNCHANGED <<Director_instances, util, localStorage, page, checkVars>>

A5_MovieUpdateOf(inputs) ==
  \E slots \in inputs : \E r \in {A5_update(util, slots, Movie_instances, Person_instances)} :
    /\ Movie_instances' = r.MI
    /\ Person_instances' = r.PI
    /\ UNCHANGED <<Director_instances, util, localStorage, page, checkVars>>

A5_MovieDestroyOf(inputs) ==
  \E id \in inputs : \E r \in {A5_destroy(id, Movie_instances, Person_instances)} :
    /\ Movie_instances' = r.MI
    /\ Person_instances' = r.PI
    /\ UNCHANGED <<Director_instances, util, localStorage, page, checkVars>>

A5_MovieAdd == A5_MovieAddOf(A5_AddInputs)
A5_MovieUpdate == A5_MovieUpdateOf(A5_UpdateInputs)
A5_MovieDestroy == A5_MovieDestroyOf(MovieIdInputs)

NextA5 == A5_PersonAdd \/ A5_MovieAdd \/ A5_MovieUpdate \/ A5_MovieDestroy

SpecA5 == InitA5 /\ [][NextA5]_vars

(***************************************************************************)
(* The same session with the storage of the movies: Movie.saveAll writes   *)
(* the blob, and a reload starts a fresh page, where the persons are       *)
(* loaded first and Movie.retrieveAll then reads the blob. The requests    *)
(* are those for the movie IDs below MaxId.                                *)
(***************************************************************************)
A5S_MovieAdd == A5_MovieAddOf({slots \in A5_AddInputs : slots.movieId # IdStr(MaxId)})
A5S_MovieUpdate == A5_MovieUpdateOf({slots \in A5_UpdateInputs : slots.movieId # IdStr(MaxId)})
A5S_MovieDestroy == A5_MovieDestroyOf(MovieIdInputs \ {IdStr(MaxId)})

A5S_MovieSaveAll ==
  /\ localStorage' = [localStorage EXCEPT !.movies = A5_saveAll(Movie_instances)]
  /\ UNCHANGED <<Person_instances, Director_instances, Movie_instances, util, page, checkVars>>

A5S_Reload ==
  \E r \in {A5_retrieveAll(localStorage.movies, EmptyMap, A5_FreshPersons(Person_instances))} :
    /\ Movie_instances' = r.MI
    /\ Person_instances' = r.PI
    /\ localStorage' = [localStorage EXCEPT !.movies = r.blob]
    /\ UNCHANGED <<Director_instances, util, page, checkVars>>

NextA5S ==
  A5_PersonAdd \/ A5S_MovieAdd \/ A5S_MovieUpdate \/ A5S_MovieDestroy \/ A5S_MovieSaveAll
    \/ A5S_Reload

SpecA5S == InitA5 /\ [][NextA5S]_vars

\* C3: every stored movie that has a director is a key of that director's directedMovies.
C3_DirectorTracksMovie ==
  \A k \in DOMAIN Movie_instances :
    Movie_instances[k].director.t = "obj"
      => /\ A5_personKey(Movie_instances[k].director) \in DOMAIN Person_instances
         /\ A5_movieKey(Movie_instances[k])
              \in Person_instances[A5_personKey(Movie_instances[k].director)].directedMovies

\* an update has moved a stored movie from its first director to another person
C3_Witness ==
  \E k \in DOMAIN Movie_instances :
    /\ Movie_instances[k].title = TitleB
    /\ Movie_instances[k].director = Obj(MaxId)
    /\ {NatToStr(1), NatToStr(MaxId)} \subseteq DOMAIN Person_instances
    /\ k \in Person_instances[NatToStr(MaxId)].directedMovies
    /\ k \notin Person_instances[NatToStr(1)].directedMovies

\* C4: every key of a person's directedMovies is the key of a stored movie whose director
\* is that person; in particular a failed Movie.add leaves no entry behind.
C4_BackRefsPointToStoredMovies ==
  \A p \in DOMAIN Person_instances : \A k \in Person_instances[p].directedMovies :
    /\ k \in DOMAIN Movie_instances
    /\ Movie_instances[k].director = Obj(Person_instances[p].personId)

\* the set of actor IDs of a movie object
A5_actorIdSet(o) == IF o.hasActors THEN {ParseInt(Str(k)).n : k \in DOMAIN o.actors} ELSE {}

\* C7: Movie.saveAll followed, on a fresh page with the persons loaded, by
\* Movie.retrieveAll yields the same movie IDs, each movie with the title, release date,
\* director ID and set of actor IDs it had.
C7_RoundTripPreservesMovies ==
  \A loaded \in {A5_retrieveAll(A5_saveAll(Movie_instances), EmptyMap,
                                A5_FreshPersons(Person_instances)).MI} :
    /\ DOMAIN loaded = DOMAIN Movie_instances
    /\ \A k \in DOMAIN Movie_instances :
         /\ loaded[k].movieId = Movie_instances[k].movieId
         /\ loaded[k].title = Movie_instances[k].title
         /\ loaded[k].releaseDate = Movie_instances[k].releaseDate
         /\ Get(loaded[k].director) = Get(Movie_instances[k].director)
         /\ A5_actorIdSet(loaded[k]) = A5_actorIdSet(Movie_instances[k])

(***************************************************************************)
(* Person of src/unnamed/part_001: a person object is [cls, personId,      *)
(* name] with the ID as it was passed (a string or a number). The module   *)
(* imports the classes No-, MandatoryValue-, Range-, Uniqueness- and       *)
(* ReferentialIntegrityConstraintViolation; any other class name raises a  *)
(* ReferenceError where it is used.                                        *)
(***************************************************************************)
P1_Scope == {CV.No, CV.Mandatory, CV.Range, CV.Uniqueness, CV.ReferentialIntegrity}

P1_checkPersonId(pid) ==
  IF ~IsInteger(ParseInt(pid)) THEN Ret(CV.Range)
  ELSE IF LessThan(pid, 0)
       THEN (IF CV.Interval \in P1_Scope THEN Ret(CV.Interval) ELSE Throw("ReferenceError"))
  ELSE Ret(CV.No)

\* set personId( pid) of a new object: the check is checkPersonId, which does not
\* look at Person.instances
P1_set_personId(pid, PI) ==
  Let(P1_checkPersonId(pid), LAMBDA constraintViolation :
    IF IsNoViolation(constraintViolation)
    THEN Ok([cls |-> "Person", personId |-> pid, name |-> Absent])
    ELSE Fail(constraintViolation.cls))

P1_checkName(n) ==
  IF ~Truthy(n) THEN Ret(CV.No)
  ELSE IF NotNonEmptyString(n) THEN Ret(CV.Range)
  ELSE Ret(CV.No)

P1_set_name(o, n) ==
  IF IsNoViolation(P1_checkName(n)) THEN Ok([o EXCEPT !.name = n]) ELSE FailAt(P1_checkName(n).cls, o)

\* new Person( {personId, name})
P1_new(personId, name, PI) ==
  Let(P1_set_personId(personId, PI), LAMBDA r :
    IF r.ok THEN P1_set_name(r.obj, name) ELSE r)

P1_add(personId, name, PI) ==
  Let(P1_new(personId, name, PI), LAMBDA c :
    IF c.ok THEN Put(PI, ToStr(c.obj.personId), c.obj) ELSE PI)

\* Person.update( slots) with a name slot; a failed assignment puts the clone in place
P1_update(personId, name, PI) ==
  IF ~HasKey(PI, personId) THEN PI
  ELSE Let(PI[ToStr(personId)], LAMBDA person :
         IF StrictEq(Get(person.name), name) THEN PI
         ELSE Let(P1_set_name(person, name), LAMBDA r :
                Put(PI, ToStr(personId),
                    IF r.ok THEN r.obj
                    ELSE [person EXCEPT !.name = IF IsData(person.name) THEN @ ELSE Absent])))

\* Person.destroy( personId), its last statement: delete Person.instances[personId]
P1_destroy(personId, PI) == Del(PI, ToStr(personId))

\* reading movie[name]: a property the object does not have reads as undefined
P0_prop(o, name) == IF name \in DOMAIN o THEN Get(o[name]) ELSE Undef
\* delete movie[name]
P0_delete(o, name) == IF name \in DOMAIN o THEN [o EXCEPT ![name] = Absent] ELSE o

\* the loop of Person.destroy( personId) over Movie.instances: a movie whose
\* movie.person?.personId is personId loses its slot _person
P1_destroyRefs(personId, MI) ==
  [key \in DOMAIN MI |->
     Let(P0_prop(MI[key], "person"), LAMBDA person :
       IF StrictEq(IF person.t = "obj" THEN Num(person.n) ELSE Undef, personId)
       THEN P0_delete(MI[key], "person") ELSE MI[key])]

P1_IdInputs ==
  {IdStr(i) : i \in 1..MaxId} \cup {Num(i) : i \in 1..MaxId} \cup {Undef, Num(-1), Str(<<" ", "1">>)}
P1_NameInputs == {TitleA, TitleB, Undef, Str(<<" ">>)}

P1_PersonAdd ==
  \E id \in P1_IdInputs, n \in P1_NameInputs :
    /\ Person_instances' = P1_add(id, n, Person_instances)
    /\ UNCHANGED <<Director_instances, Movie_instances, util, localStorage, page, checkVars>>

P1_PersonUpdate ==
  \E id \in P1_IdInputs, n \in P1_NameInputs :
    /\ Person_instances' = P1_update(id, n, Person_instances)
    /\ UNCHANGED <<Director_instances, Movie_instances, util, localStorage, page, checkVars>>

P1_PersonDestroy ==
  \E id \in P1_IdInputs :
    /\ Movie_instances' = P1_destroyRefs(id, Movie_instances)
    /\ Person_instances' = P1_destroy(id, Person_instances)
    /\ UNCHANGED <<Director_instances, util, localStorage, page, checkVars>>

NextP1 == P1_PersonAdd \/ P1_PersonUpdate \/ P1_PersonDestroy

SpecP1 == InitA6 /\ [][NextP1]_vars

\* C10: Person.add with a personId that is a key of Person.instances leaves
\* Person.instances as it is: the stored person keeps its name and no record is added.
C10_AddWithExistingIdChangesNothing ==
  \A id \in P1_IdInputs, n \in P1_NameInputs :
    HasKey(Person_instances, id) => P1_add(id, n, Person_instances) = Person_instances

(***************************************************************************)
(* Book (assignment6): a book object holds the slots _isbn, _title, _year, *)
(* _category, _subjectArea and _about, each a value or Absent. Every slot  *)
(* holds a number or a string, which both versions of cloneObject copy.    *)
(***************************************************************************)
BookSlots(isbn, title, year, category, subjectArea, about) ==
  [isbn |-> isbn, title |-> title, year |-> year, category |-> category,
   subjectArea |-> subjectArea, about |-> about]

NewBookObject == BookSlots(Absent, Absent, Absent, Absent, Absent, Absent)

Book_set_isbn(o, isbn, BI) ==
  Let(Book_checkIsbnAsId(isbn, BI), LAMBDA validationResult :
    IF IsNoViolation(validationResult) THEN Ok([o EXCEPT !.isbn = isbn])
    ELSE FailAt(validationResult.cls, o))

\* title and year are assigned without validation
Book_set_title(o, t) == Ok([o EXCEPT !.title = t])
Book_set_year(o, v) == Ok([o EXCEPT !.year = v])

Book_set_category(o, c) ==
  Let(IF Truthy(Get(o.category)) THEN Ret(CV.FrozenValue) ELSE Book_checkCategory(c),
      LAMBDA validationResult :
        IF IsNoViolation(validationResult) THEN Ok([o EXCEPT !.category = ParseInt(c)])
        ELSE FailAt(validationResult.cls, o))

Book_set_subjectArea(o, v) ==
  Let(Book_checkSubjectArea(v, Get(o.category)), LAMBDA validationResult :
    IF IsNoViolation(validationResult) THEN Ok([o EXCEPT !.subjectArea = v])
    ELSE FailAt(validationResult.cls, o))

Book_set_about(o, v) ==
  Let(Book_checkAbout(v, Get(o.category)), LAMBDA validationResult :
    IF IsNoViolation(validationResult) THEN Ok([o EXCEPT !.about = v])
    ELSE FailAt(validationResult.cls, o))

\* the i-th statement of the constructor
Book_new_slot(i, o, slots, BI) ==
  CASE i = 1 -> Book_set_isbn(o, Get(slots.isbn), BI)
    [] i = 2 -> Book_set_title(o, Get(slots.title))
    [] i = 3 -> Book_set_year(o, Get(slots.year))
    [] i = 4 -> IF Truthy(Get(slots.category)) THEN Book_set_category(o, slots.category) ELSE Ok(o)
    [] i = 5 -> IF Truthy(Get(slots.subjectArea)) THEN Book_set_subjectArea(o, slots.subjectArea)
                ELSE Ok(o)
    [] OTHER -> IF Truthy(Get(slots.about)) THEN Book_set_about(o, slots.about) ELSE Ok(o)

RECURSIVE Book_new_from(_, _, _, _)
Book_new_from(i, r, slots, BI) ==
  IF ~r.ok \/ i > 6 THEN r
  ELSE Book_new_from(i + 1, Book_new_slot(i, r.obj, slots, BI), slots, BI)

Book_new(slots, BI) == Book_new_from(1, Ok(NewBookObject), slots, BI)

\* Book.add: the object is stored when the constructor has not thrown
Book_add(slots, BI) ==
  Let(Book_new(slots, BI), LAMBDA c :
    IF c.ok THEN Put(BI, ToStr(c.obj.isbn), c.obj) ELSE BI)

\* a clone that copies no slot
cloneObject_Book_Empty(variant, obj) == NewBookObject

\* cloneObject( book): both versions copy the slots that hold a number or a string
cloneObject_Book(variant, obj) ==
  [p \in DOMAIN obj |-> IF IsData(obj[p]) THEN obj[p] ELSE Absent]

\* the i-th statement of the try block of Book.update. "category" in book is true of
\* every book: the class defines the accessor.
Book_update_slot(i, o, slots) ==
  CASE i = 1 -> IF Truthy(Get(slots.title)) /\ ~StrictEq(Get(o.title), slots.title)
                THEN Book_set_title(o, slots.title) ELSE Ok(o)
    [] i = 2 -> IF Truthy(Get(slots.year)) /\ ~StrictEq(Get(o.year), slots.year)
                THEN Book_set_year(o, slots.year) ELSE Ok(o)
    [] i = 3 -> IF Truthy(Get(slots.category))
                THEN IF Get(o.category) = Undef THEN Book_set_category(o, slots.category)
                     ELSE IF ~StrictEq(slots.category, o.category) THEN FailAt(CV.FrozenValue, o)
                     ELSE Ok(o)
                ELSE IF StrictEq(Get(slots.category), Str(<<>>)) THEN FailAt(CV.FrozenValue, o)
                ELSE Ok(o)
    [] i = 4 -> IF Truthy(Get(slots.subjectArea)) /\ ~StrictEq(Get(o.subjectArea), slots.subjectArea)
                THEN Book_set_subjectArea(o, slots.subjectArea) ELSE Ok(o)
    [] OTHER -> IF Truthy(Get(slots.about)) /\ ~StrictEq(Get(o.about), slots.about)
                THEN Book_set_about(o, slots.about) ELSE Ok(o)

RECURSIVE Book_update_from(_, _, _)
Book_update_from(i, r, slots) ==
  IF ~r.ok \/ i > 5 THEN r ELSE Book_update_from(i + 1, Book_update_slot(i, r.obj, slots), slots)

\* Book.update yields [BI, exc]: the new Book.instances and the class of the error that was
\* caught ("" when none was). cloneObject( undefined) throws before the try block is entered.
Book_update(variant, slots, BI) ==
  IF ~HasKey(BI, Get(slots.isbn)) THEN [BI |-> BI, exc |-> "TypeError"]
  ELSE Let(ToStr(slots.isbn), LAMBDA key :
         Let(Book_update_from(1, Ok(BI[key]), slots), LAMBDA r :
           IF r.ok THEN [BI |-> Put(BI, key, r.obj), exc |-> ""]
           ELSE [BI |-> Put(BI, key, cloneObject_Book(variant, BI[key])), exc |-> r.exc]))

Book_destroy(isbn, BI) == IF HasKey(BI, isbn) THEN Del(BI, ToStr(isbn)) ELSE BI

(***************************************************************************)
(* A session of Book.add, Book.update and Book.destroy calls with the      *)
(* slots the book forms pass (strings) and those of the test data          *)
(* (numbers), over two ISBNs.                                              *)
(***************************************************************************)
Isbn2 == Str(<<"0", "4", "6", "5", "0", "3", "0", "7", "9", "X">>)
Year2000 == Str(<<"2", "0", "0", "0">>)

BookIsbnInputs == {Isbn1, Isbn2, Absent}
BookCategoryInputs ==
  {Absent, Str(<<>>), IdStr(BookCategoryEL.TEXTBOOK), IdStr(BookCategoryEL.BIOGRAPHY),
   Num(BookCategoryEL.TEXTBOOK), Num(BookCategoryEL.BIOGRAPHY), Str(<<"3">>)}
BookSegmentInputs == {Absent, Str(<<>>), TitleA, Str(<<" ">>)}

\* records with any ISBN, category and segment values, then records for the first ISBN
\* with and without a year and with every kind of subject area
BookSlotInputs ==
  {BookSlots(isbn, t, Absent, c, sA, a) :
     isbn \in BookIsbnInputs, t \in {TitleA, TitleB}, c \in BookCategoryInputs,
     sA \in {Absent, TitleA}, a \in {Absent, TitleA}}
  \cup {BookSlots(Isbn1, TitleA, y, c, sA, Absent) :
          y \in {Absent, Year2000}, c \in {Absent, IdStr(BookCategoryEL.TEXTBOOK)},
          sA \in BookSegmentInputs}

InitBook ==
  /\ Person_instances = EmptyMap
  /\ Director_instances = EmptyMap
  /\ Movie_instances = EmptyMap
  /\ util \in {"data", "refs"}
  /\ localStorage = NoStorage
  /\ page = "session"
  /\ NoCheck

BookAdd ==
  \E slots \in BookSlotInputs :
    /\ Book_instances' = Book_add(slots, Book_instances)
    /\ UNCHANGED <<Person_instances, Director_instances, Movie_instances, util, localStorage,
                   page, Employee_instances, Author_instances, call, result, form>>

BookUpdate ==
  \E slots \in BookSlotInputs :
    /\ Book_instances' = Book_update(util, slots, Book_instances).BI
    /\ UNCHANGED <<Person_instances, Director_instances, Movie_instances, util, localStorage,
                   page, Employee_instances, Author_instances, call, result, form>>

BookDestroy ==
  \E isbn \in BookIsbnInputs :
    /\ Book_instances' = Book_destroy(isbn, Book_instances)
    /\ UNCHANGED <<Person_instances, Director_instances, Movie_instances, util, localStorage,
                   page, Employee_instances, Author_instances, call, result, form>>

NextBook == BookAdd \/ BookUpdate \/ BookDestroy

SpecBook == InitBook /\ [][NextBook]_vars

(***************************************************************************)
(* Properties of the Book class (SpecBook)                                 *)
(***************************************************************************)
\* the stored books
Books == {Book_instances[k] : k \in DOMAIN Book_instances}

\* the values a book shows through its getters
BookView(o) == [p \in DOMAIN o |-> Get(o[p])]

\* C11: every stored book has a subjectArea value only if its category is Textbook and
\* an about value only if its category is Biography.
C11_SegmentValuesOnlyForTheirCategory ==
  \A b \in Books :
    /\ Get(b.subjectArea) # Undef => Get(b.category) = Num(BookCategoryEL.TEXTBOOK)
    /\ Get(b.about) # Undef => Get(b.category) = Num(BookCategoryEL.BIOGRAPHY)

\* a textbook with a subject area and a biography with an about value are stored, and
\* an update that gives a stored textbook an about value is refused
C11_Witness ==
  /\ \E b \in Books : Get(b.subjectArea) = TitleA /\ Get(b.category) = Num(BookCategoryEL.TEXTBOOK)
  /\ \E b \in Books : Get(b.about) = TitleA /\ Get(b.category) = Num(BookCategoryEL.BIOGRAPHY)
  /\ \E slots \in BookSlotInputs :
       /\ HasKey(Book_instances, Get(slots.isbn))
       /\ Get(Book_instances[ToStr(slots.isbn)].category) = Num(BookCategoryEL.TEXTBOOK)
       /\ slots.category = Absent /\ slots.about = TitleA
       /\ Book_update(util, slots, Book_instances).exc = CV.Generic

\* C12: every stored textbook has a non-empty subjectArea and every stored biography a
\* non-empty about value; Book.add with the category Textbook and no subjectArea adds
\* no record.
C12_SegmentValuesMandatory ==
  /\ \A b \in Books :
       /\ Get(b.category) = Num(BookCategoryEL.TEXTBOOK) => Truthy(Get(b.subjectArea))
       /\ Get(b.category) = Num(BookCategoryEL.BIOGRAPHY) => Truthy(Get(b.about))
  /\ \A slots \in BookSlotInputs :
       (ParseInt(Get(slots.category)) = Num(BookCategoryEL.TEXTBOOK) /\ ~Truthy(Get(slots.subjectArea)))
         => Book_add(slots, Book_instances) = Book_instances

\* the category slot of an update asks for another category or for none
ChangesCategory(slots, b) ==
  \/ Truthy(Get(slots.category)) /\ ParseInt(slots.category) # Get(b.category)
  \/ Get(slots.category) = Str(<<>>)

\* C14: Book.update of a stored book that has a category leaves the book stored under
\* that ISBN with the same category, whatever the category slot; an update that asks
\* for another category or for none is rejected with a frozen value violation and
\* leaves every property of the book as it was.
C14_CategoryIsFrozen ==
  \A slots \in BookSlotInputs :
    (HasKey(Book_instances, Get(slots.isbn)) /\ Truthy(Get(Book_instances[ToStr(slots.isbn)].category)))
      => Let(Book_update(util, slots, Book_instances), LAMBDA r :
           Let(Book_instances[ToStr(slots.isbn)], LAMBDA book :
             /\ DOMAIN r.BI = DOMAIN Book_instances
             /\ Get(r.BI[ToStr(slots.isbn)].category) = Get(book.category)
             /\ ChangesCategory(slots, book)
                  => r.exc = CV.FrozenValue /\ BookView(r.BI[ToStr(slots.isbn)]) = BookView(book)))

\* a stored biography with title A: an update with title B and the category Textbook is
\* rejected after the title was assigned, and so is one with title B and no category
C14_Witness ==
  \E k \in DOMAIN Book_instances :
    /\ Get(Book_instances[k].category) = Num(BookCategoryEL.BIOGRAPHY)
    /\ Get(Book_instances[k].title) = TitleA
    /\ \A c \in {IdStr(BookCategoryEL.TEXTBOOK), Str(<<>>)} :
         /\ Book_update_from(1, Ok(Book_instances[k]),
                             BookSlots(Str(k), TitleB, Absent, c, Absent, Absent)).obj.title = TitleB
         /\ Book_update(util, BookSlots(Str(k), TitleB, Absent, c, Absent, Absent),
                        Book_instances).exc = CV.FrozenValue

(***************************************************************************)
(* Further properties of the assignment6 Movie class (SpecA6)              *)
(***************************************************************************)
\* C13: every stored movie has a director, and that director is a person object;
\* Movie.add with neither director nor director_id adds no record to Movie.instances.
C13_EveryMovieHasADirector ==
  /\ \A k \in DOMAIN Movie_instances : Get(Movie_instances[k].director).t = "obj"
  /\ \A slots \in AddSlotInputs :
       (~Truthy(Get(slots.director)) /\ ~Truthy(Get(slots.director_id)))
         => Movie_add(slots, Movie_instances, Person_instances, Subtypes).MI = Movie_instances

(***************************************************************************)
(* Employee (assignment6): an employee object is a person object with the  *)
(* slots _empNo, _category and _department.                                *)
(***************************************************************************)
EmployeeSlots(personId, name, empNo, category, department) ==
  [personId |-> personId, name |-> name, empNo |-> empNo, category |-> category,
   department |-> department]

\* set category( v): the value is converted before it is checked
Employee_set_category(o, v) ==
  Let(IF Truthy(Get(o.category)) THEN Ret(CV.FrozenValue) ELSE Employee_checkCategory(ParseInt(v)),
      LAMBDA validationResult :
        IF IsNoViolation(validationResult) THEN Ok([o EXCEPT !.category = ParseInt(v)])
        ELSE FailAt(validationResult.cls, o))

Employee_set_department(o, v) ==
  Let(Employee_checkDepartment(v, Get(o.category)), LAMBDA validationResult :
    IF IsNoViolation(validationResult) THEN Ok([o EXCEPT !.department = v])
    ELSE FailAt(validationResult.cls, o))

\* the statements of the constructor after super( {personId, name})
Employee_new_slot(i, o, slots) ==
  CASE i = 1 -> Ok([o EXCEPT !.empNo = Get(slots.empNo)])
    [] i = 2 -> IF Truthy(Get(slots.category)) THEN Employee_set_category(o, slots.category) ELSE Ok(o)
    [] OTHER -> IF Truthy(Get(slots.department)) THEN Employee_set_department(o, slots.department)
                ELSE Ok(o)

RECURSIVE Employee_new_from(_, _, _)
Employee_new_from(i, r, slots) ==
  IF ~r.ok \/ i > 3 THEN r ELSE Employee_new_from(i + 1, Employee_new_slot(i, r.obj, slots), slots)

Employee_new(slots, EI) ==
  Let(Person_new("Employee", Get(slots.personId), Get(slots.name), EI), LAMBDA r :
    IF ~r.ok THEN r
    ELSE Employee_new_from(1, Ok([cls |-> r.obj.cls, personId |-> r.obj.personId,
                                  name |-> r.obj.name, empNo |-> Absent, category |-> Absent,
                                  department |-> Absent]), slots))

Employee_add(slots, EI) ==
  Let(Employee_new(slots, EI), LAMBDA c :
    IF c.ok THEN Put(EI, ToStr(Num(c.obj.personId)), c.obj) ELSE EI)

\* Employee.destroy: reading the name of a missing record raises a TypeError
Employee_destroy(personId, EI) == IF HasKey(EI, personId) THEN Del(EI, ToStr(personId)) ELSE EI

(***************************************************************************)
(* A session of the person hierarchy: Person.add, Director.add,            *)
(* Employee.add and Employee.destroy. (Person.destroy and Director.destroy *)
(* read Movie.instances, a name their modules do not import: they raise a  *)
(* ReferenceError before they change anything.)                            *)
(***************************************************************************)
PH_IdInputs == {IdStr(i) : i \in 1..MaxId} \cup {Num(i) : i \in 1..MaxId} \cup {Undef}
PH_NameInputs == {TitleA, TitleB, Str(<<>>)}

EmployeeSlotInputs ==
  {EmployeeSlots(id, n, Num(1), c, d) :
     id \in PH_IdInputs, n \in PH_NameInputs, c \in {Absent, Num(EmployeeCategoryEL.MANAGER)},
     d \in {Absent, TitleA}}

PH_PersonAdd ==
  \E id \in PH_IdInputs, n \in PH_NameInputs :
    /\ Person_instances' = Person_add("Person", id, n, Person_instances)
    /\ UNCHANGED <<Director_instances, Movie_instances, util, localStorage, page,
                   Book_instances, Employee_instances, Author_instances, call, result, form>>

PH_DirectorAdd ==
  \E id \in PH_IdInputs, n \in PH_NameInputs :
    /\ Director_instances' = Person_add("Director", id, n, Director_instances)
    /\ UNCHANGED <<Person_instances, Movie_instances, util, localStorage, page,
                   Book_instances, Employee_instances, Author_instances, call, result, form>>

PH_EmployeeAdd ==
  \E slots \in EmployeeSlotInputs :
    /\ Employee_instances' = Employee_add(slots, Employee_instances)
    /\ UNCHANGED <<Person_instances, Director_instances, Movie_instances, util, localStorage,
                   page, Book_instances, Author_instances, call, result, form>>

PH_EmployeeDestroy ==
  \E id \in PH_IdInputs :
    /\ Employee_instances' = Employee_destroy(id, Employee_instances)
    /\ UNCHANGED <<Person_instances, Director_instances, Movie_instances, util, localStorage,
                   page, Book_instances, Author_instances, call, result, form>>

NextPH == PH_PersonAdd \/ PH_DirectorAdd \/ PH_EmployeeAdd \/ PH_EmployeeDestroy

SpecPH == InitA6 /\ [][NextPH]_vars

(***************************************************************************)
(* Properties of the person hierarchy (SpecPH)                             *)
(***************************************************************************)
\* C15: every key of a subtype's instances map is a key of Person.instances, and both
\* maps hold the same object under it.
C15_SubtypeInstancesArePersons ==
  /\ \A k \in DOMAIN Director_instances :
       k \in DOMAIN Person_instances /\ Person_instances[k] = Director_instances[k]
  /\ \A k \in DOMAIN Employee_instances :
       k \in DOMAIN Person_instances /\ Person_instances[k] = Employee_instances[k]

\* a person ID the setter accepts: a positive integer or a string that denotes one
ValidPersonId(id) == Truthy(id) /\ IsInteger(ParseInt(id)) /\ ParseInt(id).n >= 1

ViolationClasses ==
  {CV.Mandatory, CV.Range, CV.Interval, CV.Uniqueness, CV.StringLength, CV.Pattern,
   CV.FrozenValue, CV.ReferentialIntegrity, CV.Generic}

\* what a movie shows through its getters: title, release date, director, set of actors
MovieView(o) ==
  [title |-> Get(o.title), releaseDate |-> Get(o.releaseDate), director |-> Get(o.director),
   actors |-> IF o.hasActors THEN DOMAIN o.actors ELSE {}]

\* update requests that fail at the director after an earlier step was applied
RollbackInputs ==
  UpdateSlotInputs
  \cup {UpdateSlots(id, TitleB, Absent, add, NoList, UnknownId) :
          id \in {IdStr(i) : i \in 1..MaxId}, add \in {NoList, Array(<<IdStr(1)>>)}}

\* C17: when a step of Movie.update raises a constraint violation, the movie stored
\* under that movieId has afterwards the title, release date, director and set of actors
\* it had before the call, also when earlier steps of the call had been applied.
C17_FailedUpdateRestoresMovie ==
  \A slots \in RollbackInputs :
    HasKey(Movie_instances, slots.movieId)
      => Let(Movie_instances[ToStr(slots.movieId)], LAMBDA movie :
           Movie_update_try(movie, slots, Person_instances, Subtypes).exc \in ViolationClasses
             => MovieView(Movie_update(util, slots, Movie_instances, Person_instances,
                                       Subtypes).MI[ToStr(slots.movieId)])
                  = MovieView(movie))

(***************************************************************************)
(* Further properties of the assignment5 Movie class (SpecA5)              *)
(***************************************************************************)
\* the directedMovies maps of all persons
DirectedMovies(PI) == [p \in DOMAIN PI |-> PI[p].directedMovies]

\* ID references assigned to the director of a stored movie
A5_DirectorRefs == {IdStr(i) : i \in 1..MaxId} \cup {Num(i) : i \in 1..MaxId} \cup {UnknownId}

\* C18: for a stored movie m with director d1, assigning the ID of another existing
\* person d2 through the director setter, or passing it to a Movie.update that succeeds,
\* leaves m.movieId in d2.directedMovies and not in d1.directedMovies; when the ID
\* reference is rejected, all directedMovies maps are as they were.
C18_ReassignedDirectorMovesBackRef ==
  \A k \in DOMAIN Movie_instances :
    Get(Movie_instances[k].director).t = "obj"
      => Let(A5_personKey(Movie_instances[k].director), LAMBDA d1 :
           /\ \A d \in A5_DirectorRefs :
                Let(A5_set_director(Movie_instances[k], d, Person_instances), LAMBDA r :
                  IF IsNoViolation(Movie_checkDirector(d, Person_instances, <<>>))
                  THEN /\ r.ok
                       /\ k \in r.PI[ToStr(d)].directedMovies
                       /\ ToStr(d) # d1 => k \notin r.PI[d1].directedMovies
                  ELSE ~r.ok /\ r.PI = Person_instances)
           /\ \A slots \in A5_UpdateInputs :
                (slots.movieId = Str(k) /\ Truthy(slots.director_id))
                  => Let(A5_update(util, slots, Movie_instances, Person_instances), LAMBDA u :
                       IF IsNoViolation(Movie_checkDirector(slots.director_id, Person_instances, <<>>))
                       THEN A5_update_from(1, A5R(Ok(Movie_instances[k]), Person_instances), slots).ok
                              => /\ k \in u.PI[ToStr(slots.director_id)].directedMovies
                                 /\ ToStr(slots.director_id) # d1 => k \notin u.PI[d1].directedMovies
                       ELSE DirectedMovies(u.PI) = DirectedMovies(Person_instances)))

\* a stored movie has director 1 and person MaxId exists: the setter and an update move
\* the movie to person MaxId, and the setter rejects the ID of no person
C18_Witness ==
  \E k \in DOMAIN Movie_instances :
    /\ Movie_instances[k].director = Obj(1)
    /\ {NatToStr(1), NatToStr(MaxId)} \subseteq DOMAIN Person_instances
    /\ k \in Person_instances[NatToStr(1)].directedMovies
    /\ k \notin Person_instances[NatToStr(MaxId)].directedMovies
    /\ A5_set_director(Movie_instances[k], IdStr(MaxId), Person_instances).ok
    /\ ~A5_set_director(Movie_instances[k], UnknownId, Person_instances).ok
    /\ \E slots \in A5_UpdateInputs :
         /\ slots.movieId = Str(k) /\ slots.director_id = IdStr(MaxId)
         /\ A5_update_from(1, A5R(Ok(Movie_instances[k]), Person_instances), slots).ok
         /\ A5_update(util, slots, Movie_instances, Person_instances).MI[k].director = Obj(MaxId)

\* C19: Movie.destroy( id) of a stored movie leaves id no key of Movie.instances, of any
\* person's directedMovies and of any person's playedMovies.
C19_DestroyClearsBackRefs ==
  \A id \in MovieIdInputs :
    HasKey(Movie_instances, id)
      => Let(A5_destroy(id, Movie_instances, Person_instances), LAMBDA r :
           /\ ~HasKey(r.MI, id)
           /\ \A p \in DOMAIN r.PI :
                ToStr(id) \notin r.PI[p].directedMovies /\ ToStr(id) \notin r.PI[p].playedMovies)

(***************************************************************************)
(* Movie of src/unnamed/part_000 with Person of src/unnamed/part_001. A    *)
(* movie object holds the slots _movieId, _title, _director and _actors    *)
(* and, once Movie.update assigned it, the plain property releaseDate. The *)
(* checks of the movie ID and of the title read as the assignment6 ones.   *)
(* Movie imports Person, cloneObject and six constraint violation classes: *)
(* the names Actor and validationResult (in checkDirector) are declared    *)
(* nowhere, and using them raises a ReferenceError.                        *)
(***************************************************************************)
P0_Declared == {"Movie", "Person", "cloneObject", "director_id"}

P1_checkPersonIdAsIdRef(pid, PI) ==
  Let(P1_checkPersonId(pid), LAMBDA validationResult :
    IF IsNoViolation(validationResult) /\ Truthy(pid) /\ ~HasKey(PI, pid)
    THEN Ret(CV.ReferentialIntegrity) ELSE validationResult)

\* static checkDirector( director_id): its first statement assigns validationResult
P0_checkDirector(director_id, PI) ==
  IF "validationResult" \notin P0_Declared THEN Throw("ReferenceError")
  ELSE IF ~Truthy(director_id) THEN Ret(CV.Mandatory)
  ELSE P1_checkPersonIdAsIdRef(director_id, PI)

\* Person.instances[ director_id] as a reference
P0_PersonRef(PI, id) == IF HasKey(PI, id) THEN Obj(ParseInt(PI[ToStr(id)].personId).n) ELSE Undef

P0_set_director(o, d, PI) ==
  IF ~Truthy(d) THEN Ok([o EXCEPT !.director = Absent])
  ELSE Let(IF d.t # "obj" THEN d ELSE Num(d.n), LAMBDA director_id :
         Let(P0_checkDirector(director_id, PI), LAMBDA validationResult :
           IF IsNoViolation(validationResult)
           THEN Ok([o EXCEPT !.director = P0_PersonRef(PI, director_id)])
           ELSE FailAt(validationResult.cls, o)))

P0_checkActor(actor_id, PI) ==
  IF ~Truthy(actor_id) THEN Ret(CV.No) ELSE P1_checkPersonIdAsIdRef(actor_id, PI)

\* addActor( a): the accepted reference is read from Actor.instances
P0_addActor(o, a, PI) ==
  Let(Movie_actorId(a), LAMBDA actor_id :
    IF ~Truthy(actor_id) THEN Ok(o)
    ELSE Let(P0_checkActor(actor_id, PI), LAMBDA validationResult :
           IF ~IsNoViolation(validationResult) THEN FailAt(validationResult.cls, o)
           ELSE IF "Actor" \notin P0_Declared THEN FailAt("ReferenceError", o)
           ELSE IF ~o.hasActors THEN FailAt("TypeError", o)
           ELSE Ok([o EXCEPT !.actors = Put(@, ToStr(actor_id), Undef)])))

P0_removeActor(o, a, PI) ==
  Let(Movie_actorId(a), LAMBDA actor_id :
    IF ~Truthy(actor_id) THEN Ok(o)
    ELSE Let(P0_checkActor(actor_id, PI), LAMBDA validationResult :
           IF ~IsNoViolation(validationResult) THEN FailAt(validationResult.cls, o)
           ELSE IF ~o.hasActors THEN FailAt("TypeError", o)
           ELSE Ok([o EXCEPT !.actors = Del(@, ToStr(actor_id))])))

RECURSIVE P0_eachActor(_, _, _, _)
P0_eachActor(add, r, items, PI) ==
  IF ~r.ok \/ items = <<>> THEN r
  ELSE P0_eachActor(add, IF add THEN P0_addActor(r.obj, Head(items), PI)
                         ELSE P0_removeActor(r.obj, Head(items), PI), Tail(items), PI)

P0_set_actors(o, a, PI) ==
  P0_eachActor(TRUE, Ok([o EXCEPT !.hasActors = TRUE, !.actors = EmptyMap]), a.items, PI)

P0_Slots(movieId, title, director, actors, actorsIdRef) ==
  [movieId |-> movieId, title |-> title, director |-> director, actors |-> actors,
   actorsIdRef |-> actorsIdRef]

\* the i-th statement of the constructor ({movieId, title, director, actors, actorsIdRef})
P0_new_slot(i, o, slots, MI, PI) ==
  CASE i = 1 -> Movie_set_movieId(o, Get(slots.movieId), MI)
    [] i = 2 -> Movie_set_title(o, Get(slots.title))
    [] i = 3 -> P0_set_director(o, Get(slots.director), PI)
    [] OTHER -> IF slots.actors.kind # "absent" \/ slots.actorsIdRef.kind # "absent"
                THEN P0_set_actors(o, IF slots.actors.kind # "absent" THEN slots.actors
                                      ELSE slots.actorsIdRef, PI)
                ELSE Ok(o)

RECURSIVE P0_new_from(_, _, _, _, _)
P0_new_from(i, r, slots, MI, PI) ==
  IF ~r.ok \/ i > 4 THEN r
  ELSE P0_new_from(i + 1, P0_new_slot(i, r.obj, slots, MI, PI), slots, MI, PI)

P0_new(slots, MI, PI) == P0_new_from(1, Ok(NewMovieObject), slots, MI, PI)

\* Movie.add( slots): the object is stored before the log line is built
P0_add(slots, MI, PI) ==
  Let(P0_new(slots, MI, PI), LAMBDA c :
    IF c.ok THEN Put(MI, ToStr(c.obj.movieId), c.obj) ELSE MI)

\* the i-th statement of the try block of Movie.update
P0_update_slot(i, o, slots, PI) ==
  CASE i = 1 -> IF Truthy(slots.title) /\ ~StrictEq(Get(o.title), slots.title)
                THEN Movie_set_title(o, slots.title) ELSE Ok(o)
    [] i = 2 -> IF Truthy(slots.releaseDate)
                   /\ ~StrictEq(Get(o.releaseDate), ParseInt(slots.releaseDate))
                THEN Ok([o EXCEPT !.releaseDate = slots.releaseDate]) ELSE Ok(o)
    [] i = 3 -> IF slots.actorsIdRefsToAdd.kind # "absent"
                THEN P0_eachActor(TRUE, Ok(o), slots.actorsIdRefsToAdd.items, PI) ELSE Ok(o)
    [] i = 4 -> IF slots.actorsIdRefsToRemove.kind # "absent"
                THEN P0_eachActor(FALSE, Ok(o), slots.actorsIdRefsToRemove.items, PI) ELSE Ok(o)
    [] OTHER -> IF ~Truthy(slots.director_id) THEN Ok(o)
                \* movie.director.name
                ELSE IF Get(o.director).t # "obj" THEN FailAt("TypeError", o)
                ELSE IF ~StrictEq(Get(PI[NatToStr(o.director.n)].name), slots.director_id)
                     THEN P0_set_director(o, slots.director_id, PI)
                ELSE Ok(o)

RECURSIVE P0_update_from(_, _, _, _)
P0_update_from(i, r, slots, PI) ==
  IF ~r.ok \/ i > 5 THEN r ELSE P0_update_from(i + 1, P0_update_slot(i, r.obj, slots, PI), slots, PI)

\* Movie.update( slots): cloneObject( undefined) raises a TypeError before the try block
P0_update(variant, slots, MI, PI) ==
  IF ~HasKey(MI, slots.movieId) THEN MI
  ELSE Let(ToStr(slots.movieId), LAMBDA key :
         Let(P0_update_from(1, Ok(MI[key]), slots, PI), LAMBDA r :
           Put(MI, key, IF r.ok THEN r.obj ELSE cloneObject(variant, MI[key], r.obj))))

\* Movie.destroy( movieId): the log line calls toString, which reads this.director.toString()
\* and Object.keys( this.actors); an error there leaves the method before the delete
P0_destroy(movieId, MI) ==
  IF HasKey(MI, movieId) /\ Get(MI[ToStr(movieId)].director).t = "obj"
     /\ MI[ToStr(movieId)].hasActors
  THEN Del(MI, ToStr(movieId)) ELSE MI

(***************************************************************************)
(* A session over the Movie and Person classes of part_000 and part_001    *)
(* (SpecP0)                                                                *)
(***************************************************************************)
P0_AddInputs ==
  {P0_Slots(id, t, d, a, NoList) :
     id \in MovieIdInputs, t \in {TitleA, Str(<<>>)},
     d \in {Absent, IdStr(1), Num(2), UnknownId}, a \in {NoList, Array(<<IdStr(1)>>)}}

P0_UpdateInputs ==
  {UpdateSlots(id, t, Absent, NoList, NoList, d) :
     id \in MovieIdInputs, t \in {TitleA, TitleB}, d \in {Absent, IdStr(1), TitleA}}
  \cup {UpdateSlots(IdStr(1), TitleA, rd, add, rem, Absent) :
          rd \in {Absent, Date2000}, add \in {NoList, Array(<<IdStr(1)>>)},
          rem \in {NoList, Array(<<IdStr(1)>>)}}

P0_MovieAdd ==
  \E slots \in P0_AddInputs :
    /\ Movie_instances' = P0_add(slots, Movie_instances, Person_instances)
    /\ UNCHANGED <<Person_instances, Director_instances, util, localStorage, page, checkVars>>

P0_MovieUpdate ==
  \E slots \in P0_UpdateInputs :
    /\ Movie_instances' = P0_update(util, slots, Movie_instances, Person_instances)
    /\ UNCHANGED <<Person_instances, Director_instances, util, localStorage, page, checkVars>>

P0_MovieDestroy ==
  \E id \in MovieIdInputs :
    /\ Movie_instances' = P0_destroy(id, Movie_instances)
    /\ UNCHANGED <<Person_instances, Director_instances, util, localStorage, page, checkVars>>

NextP0 ==
  \/ P1_PersonAdd \/ P1_PersonUpdate \/ P1_PersonDestroy
  \/ P0_MovieAdd \/ P0_MovieUpdate \/ P0_MovieDestroy

SpecP0 == InitA6 /\ [][NextP0]_vars

\* the person a movie's director slot refers to is a person of PI
P0_DirectorExists(o, PI) ==
  /\ Get(o.director).t = "obj"
  /\ \E key \in DOMAIN PI : ParseInt(PI[key].personId) = Num(o.director.n)

\* no stored movie holds a director reference
P0_NoMovieHasADirector == \A key \in DOMAIN Movie_instances : Get(Movie_instances[key].director).t # "obj"

C21_DestroyRemovesPersonEverywhere ==
  \A p \in PersonIdInputs :
    HasKey(Person_instances, p) =>
      Let(Person_destroy(p, Person_instances, Director_instances, Movie_instances), LAMBDA r :
        /\ ~r.thrown
        /\ ~HasKey(r.PI, p) /\ ~HasKey(r.DI, p)
        /\ \A key \in DOMAIN r.MI :
             /\ ~(Get(r.MI[key].director).t = "obj"
                  /\ NatToStr(r.MI[key].director.n) = ToStr(p))
             /\ ~HasKey(r.MI[key].actors, p))

\* the value denotes an integer that is at least 1
DenotesPositiveInteger(v) == IsInteger(ParseInt(v)) /\ ParseInt(v).n >= 1

\* movie IDs around zero, as numbers and as the strings a form passes
C22_IdInputs == {Num(0), IdStr(0), Num(-1), Str(<<"-", "1">>), Num(1), IdStr(1), Undef}

\* C22: Movie.checkMovieID reports no violation only for a value that denotes an
\* integer of at least 1, and Movie.add never leaves a movie with the ID 0 or a
\* negative ID in Movie.instances.
C22_MovieIdIsPositive ==
  /\ (call.cls = "Movie" /\ call.fn = "checkMovieID" /\ IsNoViolation(result))
       => DenotesPositiveInteger(call.a)
  /\ \A id \in C22_IdInputs :
       Let(MovieSlots(id, TitleA, Date2000, Absent, IdStr(1), NoList, NoList, Absent, Absent,
                      Absent, Absent), LAMBDA slots :
         \A key \in DOMAIN Movie_add(slots, Movie_instances, Person_instances, Subtypes).MI :
           DenotesPositiveInteger(Str(key)))

\* a string of the form YYYY-MM-DD that denotes a date
WellFormedDate(v) == DateParse(v).t = "num"

\* C23: Movie.checkReleaseDate yields a mandatory value violation for an empty value,
\* an interval violation for a well-formed date before 1895-12-28 and no violation
\* for a well-formed date from 1895-12-28 on, 1970-01-01 included.
C23_ReleaseDateCheck ==
  (call.cls = "Movie" /\ call.fn = "checkReleaseDate" /\ result # Pending) =>
    /\ call.a \in {Undef, Str(<<>>)} => result = Ret(CV.Mandatory)
    /\ (WellFormedDate(call.a) /\ DateParse(call.a).n < LOWER_BOUND_DATE.n)
         => result = Ret(CV.Interval)
    /\ (WellFormedDate(call.a) /\ DateParse(call.a).n >= LOWER_BOUND_DATE.n)
         => result = Ret(CV.No)

\* a string with a non-blank character and at most 120 characters
ValidTitle(v) == v.t = "str" /\ Trim(v.s) # <<>> /\ Len(v.s) <= 120

C24_AddSlots(id, t) ==
  MovieSlots(id, t, Date2000, Absent, IdStr(1), NoList, NoList, Absent, Absent, Absent, Absent)

\* C24: every movie of Movie.instances has a title that is a string with a non-blank
\* character and at most 120 characters, whatever Movie.add, Movie.update (also a
\* rolled back one) and Movie.retrieveAll calls came before; Movie.add takes a title
\* of 120 characters and refuses one of 121 characters, which checkTitle answers with
\* a string length violation.
C24_StoredTitlesAreValid ==
  /\ \A key \in DOMAIN Movie_instances : ValidTitle(Get(Movie_instances[key].title))
  /\ \A id \in {IdStr(i) : i \in 1..MaxId} :
       (~HasKey(Movie_instances, id) /\ HasKey(Person_instances, IdStr(1))) =>
         /\ Let(Movie_add(C24_AddSlots(id, Title120), Movie_instances, Person_instances, Subtypes).MI,
                LAMBDA MI : HasKey(MI, id) /\ MI[ToStr(id)].title = Title120)
         /\ Movie_add(C24_AddSlots(id, Title121), Movie_instances, Person_instances, Subtypes).MI
              = Movie_instances
         /\ Movie_checkTitle(Title121) = Ret(CV.StringLength)
  /\ \A slots \in PageUpdateInputs :
       \A key \in DOMAIN Movie_update(util, slots, Movie_instances, Person_instances, Subtypes).MI :
         ValidTitle(Get(Movie_update(util, slots, Movie_instances, Person_instances, Subtypes).MI[key].title))

\* a movie with a title of 120 characters was saved with its director and loaded again,
\* and an update of it was rolled back (the clone has no director); another ID is free
C24_Witness ==
  /\ page = "open" /\ localStorage.movies.present
  /\ HasKey(Person_instances, IdStr(1)) /\ ~HasKey(Movie_instances, IdStr(2))
  /\ \E key \in DOMAIN localStorage.movies.recs \cap DOMAIN Movie_instances :
       /\ localStorage.movies.recs[key].title = Title120
       /\ localStorage.movies.recs[key].director.t = "obj"
       /\ Movie_instances[key].title = Title120
       /\ Movie_instances[key].director.t # "obj"

(***************************************************************************)
(* The Create Movie form of the movies page (assignment4 v/movies.mjs). A  *)
(* control is valid when its custom validity message is empty; a check     *)
(* result gives the empty message exactly when it is a                     *)
(* NoConstraintViolation. The selected actors are pushed to                *)
(* slots.actorsIdRefs, a slot the Movie constructor does not read.         *)
(***************************************************************************)
\* el.setCustomValidity( check.message)
V4_setCustomValidity(f, field, r) ==
  [f EXCEPT !.invalid = IF IsNoViolation(r) THEN @ \ {field} ELSE @ \cup {field}]

\* formEl.checkValidity()
V4_checkValidity(f) == f.invalid = {}

\* formEl.reset(): the values return to their defaults, the validity messages stay
V4_reset(f) == [FreshForm EXCEPT !.invalid = f.invalid]

V4_Check(field, r) == [field |-> field, r |-> r]

\* the checks of the Save handler without the check of the director
V4_commitChecks_NoDirector(f, MI, PI, subs) ==
  <<V4_Check("movieId", Movie_checkMovieIdAsId(f.movieId, MI)),
    V4_Check("title", Movie_checkTitle(f.title)),
    V4_Check("releaseDate", Movie_checkReleaseDate(f.releaseDate)),
    V4_Check("movieId", Movie_checkMovieIdAsId(f.movieId, MI))>>

\* the checks of the Save handler, in the order of its statements
V4_commitChecks(f, MI, PI, subs) ==
  <<V4_Check("movieId", Movie_checkMovieIdAsId(f.movieId, MI)),
    V4_Check("title", Movie_checkTitle(f.title)),
    V4_Check("releaseDate", Movie_checkReleaseDate(f.releaseDate)),
    V4_Check("selectDirector", Movie_checkDirector(f.selectDirector, PI, subs)),
    V4_Check("movieId", Movie_checkMovieIdAsId(f.movieId, MI))>>

\* the setCustomValidity statements from the i-th on; an error raised by a check ends them
RECURSIVE V4_showChecks(_, _, _)
V4_showChecks(f, checks, i) ==
  IF i > Len(checks) THEN [f |-> f, thrown |-> FALSE]
  ELSE IF checks[i].r.thrown THEN [f |-> f, thrown |-> TRUE]
  ELSE V4_showChecks(V4_setCustomValidity(f, checks[i].field, checks[i].r), checks, i + 1)

V4_slots(f) ==
  MovieSlots(f.movieId, f.title, f.releaseDate, Absent, f.selectDirector, NoList, NoList,
             Absent, Absent, Absent, Absent)

\* the click handler of the Save button: [f, MI, outcome]
V4_commit(f, MI, PI, subs) ==
  Let(V4_showChecks(f, V4_commitChecks(f, MI, PI, subs), 1), LAMBDA c :
    IF c.thrown THEN [f |-> c.f, MI |-> MI, outcome |-> "error"]
    ELSE IF V4_checkValidity(c.f)
         THEN [f |-> c.f, MI |-> Movie_add(V4_slots(c.f), MI, PI, subs).MI, outcome |-> "add"]
         ELSE [f |-> c.f, MI |-> MI, outcome |-> "refused"])

V4_MovieIdValues == {NoValue, IdStr(1), IdStr(2)}
V4_TitleValues == {NoValue, TitleA}
V4_DateValues == {NoValue, Date2000, Date1800}
\* the options of the selection list: none selected, or the ID of a person
V4_DirectorOptions == {NoValue} \cup {Str(k) : k \in DOMAIN Person_instances}

V4_formVars == <<Person_instances, Director_instances, Movie_instances, util, localStorage, page, Book_instances, Employee_instances, Author_instances, call, result>>

V4_InputMovieId ==
  /\ page = "open"
  /\ \E v \in V4_MovieIdValues :
       form' = [form EXCEPT !.create = V4_setCustomValidity([@ EXCEPT !.movieId = v], "movieId",
                                         Movie_checkMovieIdAsId(v, Movie_instances))]
  /\ UNCHANGED V4_formVars

V4_InputTitle ==
  /\ page = "open"
  /\ \E v \in V4_TitleValues :
       form' = [form EXCEPT !.create = V4_setCustomValidity([@ EXCEPT !.title = v], "title",
                                         Movie_checkTitle(v))]
  /\ UNCHANGED V4_formVars

V4_InputReleaseDate ==
  /\ page = "open"
  /\ \E v \in V4_DateValues :
       form' = [form EXCEPT !.create = V4_setCustomValidity([@ EXCEPT !.releaseDate = v],
                                         "releaseDate", Movie_checkReleaseDate(v))]
  /\ UNCHANGED V4_formVars

\* the selection list of the director has no listener
V4_SelectDirector ==
  /\ page = "open"
  /\ \E v \in V4_DirectorOptions : form' = [form EXCEPT !.create.selectDirector = v]
  /\ UNCHANGED V4_formVars

\* the click on the Create menu item
V4_CreateClick ==
  /\ page = "open"
  /\ form' = [form EXCEPT !.create = V4_reset(@)]
  /\ UNCHANGED V4_formVars

\* the submit event, which a form raises once all its controls are valid
V4_Submit ==
  /\ page = "open"
  /\ V4_checkValidity(form.create)
  /\ form' = [form EXCEPT !.create = V4_reset(@)]
  /\ UNCHANGED V4_formVars

V4_Commit ==
  /\ page = "open"
  /\ \E r \in {V4_commit(form.create, Movie_instances, Person_instances, Subtypes)} :
       /\ form' = [form EXCEPT !.create = r.f, !.outcome = r.outcome]
       /\ Movie_instances' = r.MI
  /\ UNCHANGED <<Person_instances, Director_instances, util, localStorage, page, Book_instances, Employee_instances, Author_instances, call, result>>

NextV4 ==
  \/ PageLoad \/ V4_InputMovieId \/ V4_InputTitle \/ V4_InputReleaseDate \/ V4_SelectDirector
  \/ V4_CreateClick \/ V4_Submit \/ V4_Commit

SpecV4 == InitPage /\ [][NextV4]_vars

(***************************************************************************)
(* Properties of the Create Movie form (SpecV4)                            *)
(***************************************************************************)
\* the four checks of the claim, on the values in the form
V4_NoViolation(f, MI, PI, subs) ==
  /\ IsNoViolation(Movie_checkMovieIdAsId(f.movieId, MI))
  /\ IsNoViolation(Movie_checkTitle(f.title))
  /\ IsNoViolation(Movie_checkReleaseDate(f.releaseDate))
  /\ IsNoViolation(Movie_checkDirector(f.selectDirector, PI, subs))

\* C25: whatever the form holds (values and validity messages left by earlier events), a
\* click on Save invokes Movie.add exactly when checkMovieIdAsId, checkTitle,
\* checkReleaseDate and checkDirector all report no violation for the values in the form,
\* and when one of them reports a violation the click leaves Movie.instances as it is
C25_SaveAddsExactlyWhenValid ==
  page = "open" =>
    Let(V4_commit(form.create, Movie_instances, Person_instances, Subtypes), LAMBDA r :
      /\ (r.outcome = "add") <=> V4_NoViolation(form.create, Movie_instances, Person_instances, Subtypes)
      /\ ~V4_NoViolation(form.create, Movie_instances, Person_instances, Subtypes) => r.MI = Movie_instances)

\* a Save was refused because no director is selected, the other values being filled in,
\* after an earlier Save had stored a movie
C25_Witness ==
  /\ form.outcome = "refused"
  /\ Movie_instances # EmptyMap
  /\ "selectDirector" \in form.create.invalid
  /\ form.create.title = TitleA

(***************************************************************************)
(* The movies page of src/unnamed/part_003, which imports Movie and        *)
(* MovieCategoryEL (the assignment6 Movie class). Its Create form has the  *)
(* listeners of the assignment4 page and a category list; its Update form  *)
(* receives its validity messages once, when the module is loaded, from    *)
(* the values the form holds then.                                         *)
(***************************************************************************)
\* the static methods of the assignment6 Movie class
Movie_statics ==
  {"checkMovieID", "checkMovieIdAsId", "checkTitle", "checkReleaseDate", "checkDirector",
   "checkCategory", "checkTvSeriesName", "checkEpisodeNo", "checkAbout",
   "add", "update", "destroy", "retrieveAll", "saveAll"}

\* slots.category = parseInt( categoryStr) + 1
P3_category(categoryStr) == Num(ParseInt(categoryStr).n + 1)

\* if (categoryStr) { switch (slots.category) ... }: the checks of the segment fields
P3_segmentChecks(f, PI, subs) ==
  IF ~Truthy(f.category) THEN <<>>
  ELSE Let(P3_category(f.category), LAMBDA category :
         CASE category.n = MovieCategoryEL.TVSERIESEPISODE ->
                <<V4_Check("tvSeriesName", Movie_checkTvSeriesName(f.tvSeriesName, category)),
                  V4_Check("episodeNo", Movie_checkEpisodeNo(f.episodeNo, category))>>
           [] category.n = MovieCategoryEL.BIOGRAPHY ->
                <<V4_Check("about", Movie_checkAbout(f.about, category, PI, subs))>>
           [] OTHER -> <<>>)

P3_segmentSlot(f, cat, v) ==
  IF Truthy(f.category) /\ P3_category(f.category).n = cat THEN v ELSE Absent

P3_createSlots(f) ==
  MovieSlots(f.movieId, f.title, f.releaseDate, Absent, f.selectDirector, NoList, NoList,
             IF Truthy(f.category) THEN P3_category(f.category) ELSE Absent,
             P3_segmentSlot(f, MovieCategoryEL.TVSERIESEPISODE, f.tvSeriesName),
             P3_segmentSlot(f, MovieCategoryEL.TVSERIESEPISODE, f.episodeNo),
             P3_segmentSlot(f, MovieCategoryEL.BIOGRAPHY, f.about))

P3_createChecks(f, MI, PI, subs) ==
  P3_segmentChecks(f, PI, subs) \o
  <<V4_Check("movieId", Movie_checkMovieIdAsId(f.movieId, MI)),
    V4_Check("title", Movie_checkTitle(f.title)),
    V4_Check("releaseDate", Movie_checkReleaseDate(f.releaseDate)),
    V4_Check("selectDirector", Movie_checkDirector(f.selectDirector, PI, subs))>>

\* the click handler of the Save button of the Create form: [f, MI, outcome]
P3_createCommit(f, MI, PI, subs) ==
  Let(V4_showChecks(f, P3_createChecks(f, MI, PI, subs), 1), LAMBDA c :
    IF c.thrown THEN [f |-> c.f, MI |-> MI, outcome |-> "error"]
    ELSE IF V4_checkValidity(c.f)
         THEN [f |-> c.f, MI |-> Movie_add(P3_createSlots(c.f), MI, PI, subs).MI, outcome |-> "add"]
         ELSE [f |-> c.f, MI |-> MI, outcome |-> "refused"])

\* the four setCustomValidity statements that run when the module is loaded
P3_loadedUpdateForm(MI, PI, subs) ==
  V4_showChecks(FreshForm,
    <<V4_Check("movieId", Movie_checkMovieIdAsId(FreshForm.movieId, MI)),
      V4_Check("title", Movie_checkTitle(FreshForm.title)),
      V4_Check("releaseDate", Movie_checkReleaseDate(FreshForm.releaseDate)),
      V4_Check("selectDirector", Movie_checkDirector(FreshForm.selectDirector, PI, subs))>>, 1).f

\* el.value = v
P3_value(v) == Str(ToStr(Get(v)))

\* handleMovieSelectChangeEvent: [f, thrown]. No stored movie has a category (its setter
\* ends in an error for every defined value), so the else branch of movie.category runs
P3_handleMovieSelectChangeEvent(f, MI) ==
  IF ~Truthy(f.selectMovie) THEN [f |-> V4_reset(f), thrown |-> FALSE]
  ELSE Let(MI[ToStr(f.selectMovie)], LAMBDA movie :
         Let([f EXCEPT !.movieId = P3_value(movie.movieId), !.title = P3_value(movie.title),
                       !.releaseDate = P3_value(movie.releaseDate)], LAMBDA g :
           IF Get(movie.director).t # "obj" THEN [f |-> g, thrown |-> TRUE]
           ELSE [f |-> [g EXCEPT !.selectDirector = P3_value(Num(movie.director.n)),
                                 !.category = NoValue, !.tvSeriesName = NoValue,
                                 !.episodeNo = NoValue, !.about = NoValue],
                 thrown |-> FALSE]))

P3_updateSlots(f) == UpdateSlots(f.movieId, f.title, f.releaseDate, NoList, NoList, Absent)

\* the click handler of the Save button of the Update form: [f, MI, outcome]. It calls
\* Movie.checkMovieId and then tests the validity of createFormEl
P3_updateCommit(f, createForm, variant, MI, PI, subs) ==
  IF ~Truthy(f.selectMovie) THEN [f |-> f, MI |-> MI, outcome |-> "returned"]
  ELSE Let(V4_showChecks(f, P3_segmentChecks(f, PI, subs), 1), LAMBDA c :
         IF c.thrown \/ "checkMovieId" \notin Movie_statics
         THEN [f |-> c.f, MI |-> MI, outcome |-> "error"]
         ELSE IF V4_checkValidity(createForm)
              THEN [f |-> c.f, MI |-> Movie_update(variant, P3_updateSlots(c.f), MI, PI, subs).MI,
                    outcome |-> "update"]
              ELSE [f |-> c.f, MI |-> MI, outcome |-> "refused"])

P3_MovieIdValues == {NoValue, IdStr(1)}
P3_TitleValues == {NoValue, TitleA}
P3_DateValues == {NoValue, Date2000}
\* the options of a category list: none, or the index of a label of MovieCategoryEL
P3_CategoryOptions == {NoValue, Str(<<"0">>), Str(<<"1">>)}

\* the people and the movie that earlier visits of the page have stored
P3_StoredPeople == PeopleUpTo(1)
P3_StoredMovies ==
  Movie_add(MovieSlots(IdStr(2), TitleB, Date2000, Absent, IdStr(1), NoList, NoList, Absent,
                       Absent, Absent, Absent), EmptyMap, P3_StoredPeople, <<>>).MI

InitP3 ==
  /\ Person_instances = EmptyMap
  /\ Director_instances = EmptyMap
  /\ Movie_instances = EmptyMap
  /\ util \in {"data", "refs"}
  /\ localStorage = [NoStorage EXCEPT !.movies = Movie_saveAll(P3_StoredMovies),
                                     !.people = Person_saveAll(P3_StoredPeople)]
  /\ page = "closed"
  /\ NoCheck

\* loading the module: Person.retrieveAll, Movie.retrieveAll, the listeners, and the
\* validity messages of the Update form
P3_Load ==
  /\ page = "closed"
  /\ \E people \in {InitBlob(localStorage.people)} :
       \E PI \in {Person_retrieveLoop("Person", KeysInOrder(DOMAIN people.recs), people.recs, EmptyMap)} :
         \E m \in {Movie_retrieveAll(localStorage.movies, EmptyMap, PI, <<>>)} :
           /\ Person_instances' = PI
           /\ Movie_instances' = m.MI
           /\ localStorage' = [localStorage EXCEPT !.people = people, !.movies = m.blob]
           /\ form' = [NoForm EXCEPT !.update = P3_loadedUpdateForm(m.MI, PI, <<>>)]
  /\ page' = "open"
  /\ UNCHANGED <<Director_instances, util, Book_instances, Employee_instances, Author_instances, call, result>>

P3_InputMovieId ==
  /\ page = "open"
  /\ \E v \in P3_MovieIdValues :
       form' = [form EXCEPT !.create = V4_setCustomValidity([@ EXCEPT !.movieId = v], "movieId",
                                         Movie_checkMovieIdAsId(v, Movie_instances))]
  /\ UNCHANGED V4_formVars

P3_InputTitle ==
  /\ page = "open"
  /\ \E v \in P3_TitleValues :
       form' = [form EXCEPT !.create = V4_setCustomValidity([@ EXCEPT !.title = v], "title",
                                         Movie_checkTitle(v))]
  /\ UNCHANGED V4_formVars

P3_InputReleaseDate ==
  /\ page = "open"
  /\ \E v \in P3_DateValues :
       form' = [form EXCEPT !.create = V4_setCustomValidity([@ EXCEPT !.releaseDate = v],
                                         "releaseDate", Movie_checkReleaseDate(v))]
  /\ UNCHANGED V4_formVars

P3_CreateCommit ==
  /\ page = "open"
  /\ \E r \in {P3_createCommit(form.create, Movie_instances, Person_instances, Subtypes)} :
       /\ form' = [form EXCEPT !.create = r.f, !.outcome = r.outcome]
       /\ Movie_instances' = r.MI
  /\ UNCHANGED <<Person_instances, Director_instances, util, localStorage, page, Book_instances, Employee_instances, Author_instances, call, result>>

\* the click on the Update menu item
P3_UpdateClick ==
  /\ page = "open"
  /\ form' = [form EXCEPT !.update = V4_reset(@), !.options = DOMAIN Movie_instances]
  /\ UNCHANGED V4_formVars

\* the change event of the movie selection list
P3_SelectMovie ==
  /\ page = "open"
  /\ \E v \in {NoValue} \cup {Str(k) : k \in form.options} :
       form' = [form EXCEPT !.update =
                  P3_handleMovieSelectChangeEvent([@ EXCEPT !.selectMovie = v], Movie_instances).f]
  /\ UNCHANGED V4_formVars

\* the change event of the category list of the Update form shows and hides fields
P3_SelectCategory ==
  /\ page = "open"
  /\ \E v \in P3_CategoryOptions : form' = [form EXCEPT !.update.category = v]
  /\ UNCHANGED V4_formVars

\* the title of the Update form has no listener
P3_UpdateInputTitle ==
  /\ page = "open"
  /\ \E v \in P3_TitleValues : form' = [form EXCEPT !.update.title = v]
  /\ UNCHANGED V4_formVars

P3_UpdateCommit ==
  /\ page = "open"
  /\ \E r \in {P3_updateCommit(form.update, form.create, util, Movie_instances, Person_instances, Subtypes)} :
       /\ form' = [form EXCEPT !.update = r.f, !.outcome = r.outcome]
       /\ Movie_instances' = r.MI
  /\ UNCHANGED <<Person_instances, Director_instances, util, localStorage, page, Book_instances, Employee_instances, Author_instances, call, result>>

NextP3 ==
  \/ P3_Load \/ P3_InputMovieId \/ P3_InputTitle \/ P3_InputReleaseDate \/ V4_SelectDirector
  \/ V4_CreateClick \/ P3_CreateCommit \/ P3_UpdateClick \/ P3_SelectMovie \/ P3_SelectCategory
  \/ P3_UpdateInputTitle \/ P3_UpdateCommit

SpecP3 == InitP3 /\ [][NextP3]_vars

(***************************************************************************)
(* Properties of the Update Movie form (SpecP3)                            *)
(***************************************************************************)
\* the values of the Update form pass the checks of their fields
P3_UpdateValuesValid(f) ==
  /\ IsNoViolation(Movie_checkMovieID(f.movieId))
  /\ IsNoViolation(Movie_checkTitle(f.title))
  /\ IsNoViolation(Movie_checkReleaseDate(f.releaseDate))

\* C26: a click on Save in the Update form invokes Movie.update only if the values of the
\* Update form are valid, and with a movie selected and valid values in the Update form it
\* does invoke Movie.update, whatever the Create form holds
C26_UpdateSaveDependsOnUpdateForm ==
  page = "open" =>
    Let(P3_updateCommit(form.update, form.create, util, Movie_instances, Person_instances, Subtypes), LAMBDA r :
      /\ r.outcome = "update" => P3_UpdateValuesValid(form.update)
      /\ (Truthy(form.update.selectMovie) /\ P3_UpdateValuesValid(form.update))
           => r.outcome = "update")

(***************************************************************************)
(* Author (src/unnamed/part_002) and the storage of books, employees and   *)
(* authors. An author object is a person object with the slot _biography,  *)
(* which is assigned without validation. JSON.stringify writes each object *)
(* through toJSON: its own slots, without the underscore.                  *)
(***************************************************************************)
AuthorSlots(personId, name, biography) ==
  [personId |-> personId, name |-> name, biography |-> biography]

Author_new(slots, AI) ==
  Let(Person_new("Author", Get(slots.personId), Get(slots.name), AI), LAMBDA r :
    IF ~r.ok THEN r
    ELSE Ok([cls |-> r.obj.cls, personId |-> r.obj.personId, name |-> r.obj.name,
             biography |-> Get(slots.biography)]))

Author_add(slots, AI) ==
  Let(Author_new(slots, AI), LAMBDA c :
    IF c.ok THEN Put(AI, ToStr(Num(c.obj.personId)), c.obj) ELSE AI)

\* a slot that holds undefined is not written
Author_toJSON(o) ==
  [personId |-> Num(o.personId), name |-> o.name,
   biography |-> IF o.biography = Undef THEN Absent ELSE o.biography]

Author_saveAll(AI) == Blob([k \in DOMAIN AI |-> Author_toJSON(AI[k])])

Employee_toJSON(o) ==
  [personId |-> Num(o.personId), name |-> o.name, empNo |-> o.empNo, category |-> o.category,
   department |-> o.department]

Employee_saveAll(EI) == Blob([k \in DOMAIN EI |-> Employee_toJSON(EI[k])])

Book_toJSON(o) == o

Book_saveAll(BI) == Blob([k \in DOMAIN BI |-> Book_toJSON(BI[k])])

(***************************************************************************)
(* clearData of c/app.mjs. It yields the four instances maps and the local *)
(* storage after the call; confirmed is the answer to its question.        *)
(***************************************************************************)
App_State(EI, AI, PI, BI, ls) == [EI |-> EI, AI |-> AI, PI |-> PI, BI |-> BI, ls |-> ls]

\* a clearData that leaves the authors blob as it is
App_clearData_KeepAuthorsBlob(confirmed, EI, AI, PI, BI, ls) ==
  IF confirmed
  THEN App_State(EmptyMap, EmptyMap, EmptyMap, EmptyMap,
                 [ls EXCEPT !.employees = Blob(EmptyMap), !.people = Blob(EmptyMap),
                            !.books = Blob(EmptyMap)])
  ELSE App_State(EI, AI, PI, BI, ls)

App_clearData(confirmed, EI, AI, PI, BI, ls) ==
  IF confirmed
  THEN App_State(EmptyMap, EmptyMap, EmptyMap, EmptyMap,
                 [ls EXCEPT !.employees = Blob(EmptyMap), !.authors = Blob(EmptyMap),
                            !.people = Blob(EmptyMap), !.books = Blob(EmptyMap)])
  ELSE App_State(EI, AI, PI, BI, ls)

(***************************************************************************)
(* A session of the assignment6 application: records are added and saved,  *)
(* and clearData is called. call and result hold the last call of          *)
(* clearData and the answer to its question.                               *)
(***************************************************************************)
App_ClearDataCall == [cls |-> "app", fn |-> "clearData", a |-> Undef, c |-> Undef]
App_otherCall == call' = NoCall /\ result' = Pending
App_AuthorInputs == {AuthorSlots(Num(1), TitleA, b) : b \in {Absent, TitleB}}
App_EmployeeInputs ==
  {EmployeeSlots(Num(2), TitleA, Num(1), Absent, Absent),
   EmployeeSlots(Num(2), TitleB, Num(1), Num(EmployeeCategoryEL.MANAGER), TitleA)}
App_BookInputs == {BookSlots(Isbn1, TitleA, Year2000, Absent, Absent, Absent)}

App_PersonAdd ==
  /\ Person_instances' = Person_add("Person", Num(1), TitleA, Person_instances)
  /\ App_otherCall
  /\ UNCHANGED <<Director_instances, Movie_instances, util, localStorage, page, Book_instances, Employee_instances, Author_instances, form>>

App_EmployeeAdd ==
  /\ \E slots \in App_EmployeeInputs : Employee_instances' = Employee_add(slots, Employee_instances)
  /\ App_otherCall
  /\ UNCHANGED <<Person_instances, Director_instances, Movie_instances, util, localStorage, page, Book_instances, Author_instances, form>>

App_AuthorAdd ==
  /\ \E slots \in App_AuthorInputs : Author_instances' = Author_add(slots, Author_instances)
  /\ App_otherCall
  /\ UNCHANGED <<Person_instances, Director_instances, Movie_instances, util, localStorage, page, Book_instances, Employee_instances, form>>

App_BookAdd ==
  /\ \E slots \in App_BookInputs : Book_instances' = Book_add(slots, Book_instances)
  /\ App_otherCall
  /\ UNCHANGED <<Person_instances, Director_instances, Movie_instances, util, localStorage, page, Employee_instances, Author_instances, form>>

App_instances == <<Person_instances, Director_instances, Movie_instances, Book_instances, Employee_instances, Author_instances>>

App_PersonSaveAll ==
  /\ localStorage' = [localStorage EXCEPT !.people = Person_saveAll(Person_instances)]
  /\ App_otherCall
  /\ UNCHANGED <<App_instances, util, page, form>>

App_EmployeeSaveAll ==
  /\ localStorage' = [localStorage EXCEPT !.employees = Employee_saveAll(Employee_instances)]
  /\ App_otherCall
  /\ UNCHANGED <<App_instances, util, page, form>>

App_AuthorSaveAll ==
  /\ localStorage' = [localStorage EXCEPT !.authors = Author_saveAll(Author_instances)]
  /\ App_otherCall
  /\ UNCHANGED <<App_instances, util, page, form>>

App_BookSaveAll ==
  /\ localStorage' = [localStorage EXCEPT !.books = Book_saveAll(Book_instances)]
  /\ App_otherCall
  /\ UNCHANGED <<App_instances, util, page, form>>

App_ClearData ==
  /\ \E confirmed \in BOOLEAN :
       \E r \in {App_clearData(confirmed, Employee_instances, Author_instances, Person_instances, Book_instances, localStorage)} :
         /\ Employee_instances' = r.EI
         /\ Author_instances' = r.AI
         /\ Person_instances' = r.PI
         /\ Book_instances' = r.BI
         /\ localStorage' = r.ls
         /\ result' = Ret(IF confirmed THEN "confirmed" ELSE "cancelled")
  /\ call' = App_ClearDataCall
  /\ UNCHANGED <<Director_instances, Movie_instances, util, page, form>>

NextApp ==
  \/ App_PersonAdd \/ App_EmployeeAdd \/ App_AuthorAdd \/ App_BookAdd \/ App_PersonSaveAll
  \/ App_EmployeeSaveAll \/ App_AuthorSaveAll \/ App_BookSaveAll \/ App_ClearData

SpecApp == InitA6 /\ [][NextApp]_vars

(***************************************************************************)
(* Properties of clearData (SpecApp)                                       *)
(***************************************************************************)
App_AllEmpty(EI, AI, PI, BI, ls) ==
  /\ EI = EmptyMap /\ AI = EmptyMap /\ PI = EmptyMap /\ BI = EmptyMap
  /\ ls.employees = Blob(EmptyMap) /\ ls.authors = Blob(EmptyMap)
  /\ ls.people = Blob(EmptyMap) /\ ls.books = Blob(EmptyMap)

\* C27: a call of clearData that the user confirms ends with Employee.instances,
\* Author.instances, Person.instances and Book.instances empty and with the blobs
\* employees, authors, people and books holding the empty map; a call the user does not
\* confirm changes none of these maps and no blob
C27_ClearDataEmptiesOrKeeps ==
  [][(call' = App_ClearDataCall) =>
       IF result'.cls = "confirmed"
       THEN App_AllEmpty(Employee_instances', Author_instances', Person_instances', Book_instances', localStorage')
       ELSE UNCHANGED <<Employee_instances, Author_instances, Person_instances, Book_instances, localStorage>>]_vars

\* a confirmed clearData has run
C27_Cleared ==
  /\ call = App_ClearDataCall
  /\ result.cls = "confirmed"
  /\ App_AllEmpty(Employee_instances, Author_instances, Person_instances, Book_instances, localStorage)

(***************************************************************************)
(* Employee.update (assignment6). "category" in emp is true of every       *)
(* employee, because the class defines the accessor category: a request    *)
(* without a category takes the branch that drops _category and            *)
(* _department.                                                            *)
(***************************************************************************)
\* set name( n), inherited from Person
Employee_set_name(o, n) ==
  Let(Person_checkName(n), LAMBDA validationResult :
    IF IsNoViolation(validationResult) THEN Ok([o EXCEPT !.name = n])
    ELSE FailAt(validationResult.cls, o))

\* cloneObject( emp): both versions copy the slots that hold a number or a string
cloneObject_Employee(variant, obj) ==
  [p \in DOMAIN obj |->
     IF p \in {"cls", "personId"} THEN obj[p] ELSE IF IsData(obj[p]) THEN obj[p] ELSE Absent]

\* the i-th statement of the try block of Employee.update
Employee_update_slot(i, o, slots) ==
  CASE i = 1 -> IF Truthy(Get(slots.name)) /\ ~StrictEq(o.name, slots.name)
                THEN Employee_set_name(o, slots.name) ELSE Ok(o)
    [] i = 2 -> IF Truthy(Get(slots.empNo)) /\ ~StrictEq(Get(o.empNo), slots.empNo)
                THEN Ok([o EXCEPT !.empNo = slots.empNo]) ELSE Ok(o)
    [] i = 3 -> IF Truthy(Get(slots.category))
                THEN IF ~StrictEq(Get(o.category), slots.category)
                     THEN Employee_set_category(o, slots.category) ELSE Ok(o)
                ELSE Ok([o EXCEPT !.category = Absent, !.department = Absent])
    [] OTHER -> IF Truthy(Get(slots.department)) /\ ~StrictEq(Get(o.department), slots.department)
                THEN Employee_set_department(o, slots.department) ELSE Ok(o)

RECURSIVE Employee_update_from(_, _, _)
Employee_update_from(i, r, slots) ==
  IF ~r.ok \/ i > 4 THEN r
  ELSE Employee_update_from(i + 1, Employee_update_slot(i, r.obj, slots), slots)

\* Employee.update yields [EI, exc]: the new Employee.instances and the class of the error
\* that was caught ("" when none was). cloneObject( undefined) throws before the try block.
Employee_update(variant, slots, EI) ==
  IF ~HasKey(EI, Get(slots.personId)) THEN [EI |-> EI, exc |-> "TypeError"]
  ELSE Let(ToStr(slots.personId), LAMBDA key :
         Let(Employee_update_from(1, Ok(EI[key]), slots), LAMBDA r :
           IF r.ok THEN [EI |-> Put(EI, key, r.obj), exc |-> ""]
           ELSE [EI |-> Put(EI, key, cloneObject_Employee(variant, EI[key])), exc |-> r.exc]))

\* the slots of the employee forms, and requests that change the employee number
EU_UpdateInputs ==
  EmployeeSlotInputs
  \cup {EmployeeSlots(id, Absent, Num(2), c, Absent) :
          id \in {IdStr(i) : i \in 1..MaxId}, c \in {Absent, Num(EmployeeCategoryEL.MANAGER)}}

EU_EmployeeUpdate ==
  \E slots \in EU_UpdateInputs :
    /\ Employee_instances' = Employee_update(util, slots, Employee_instances).EI
    /\ UNCHANGED <<Person_instances, Director_instances, Movie_instances, util, localStorage, page, Book_instances, Author_instances, call, result, form>>

NextEU == PH_EmployeeAdd \/ EU_EmployeeUpdate \/ PH_EmployeeDestroy

SpecEU == InitA6 /\ [][NextEU]_vars

(***************************************************************************)
(* Properties of Employee.update (SpecEU)                                  *)
(***************************************************************************)
\* C28: for every stored manager, an Employee.update call that supplies only the personId
\* and a new valid name leaves the category and the department of the employee as they were
C28_UpdateOfNameKeepsCategory ==
  \A key \in DOMAIN Employee_instances :
    \A n \in {TitleA, TitleB} :
      (/\ Get(Employee_instances[key].category) = Num(EmployeeCategoryEL.MANAGER)
       /\ Employee_instances[key].name # n)
      => Let(Employee_update(util, EmployeeSlots(Str(key), n, Absent, Absent, Absent), Employee_instances).EI, LAMBDA EI :
           /\ EI[key].name = n
           /\ EI[key].category = Employee_instances[key].category
           /\ EI[key].department = Employee_instances[key].department)

(***************************************************************************)
(* Book.retrieveAll and Book.convertRec2Obj (assignment6). An entry of     *)
(* Book.instances is a book object or null; JSON.stringify writes null for *)
(* a null entry, and the constructor cannot destructure null.              *)
(***************************************************************************)
Null == [t |-> "null", n |-> 0, s |-> <<>>]
NullBook == BookSlots(Null, Null, Null, Null, Null, Null)

\* Book.convertRec2Obj: var book=null; try { book = new Book( bookRow); } catch ...; return book
Book_convertRec2Obj(bookRow, BI) ==
  IF bookRow = NullBook THEN NullBook
  ELSE Let(Book_new(bookRow, BI), LAMBDA c : IF c.ok THEN c.obj ELSE NullBook)

\* for (const isbn of Object.keys( books)) Book.instances[isbn] = Book.convertRec2Obj( ...)
RECURSIVE Book_retrieveLoop(_, _, _)
Book_retrieveLoop(keys, recs, BI) ==
  IF keys = <<>> THEN BI
  ELSE Book_retrieveLoop(Tail(keys), recs,
                         Put(BI, Head(keys), Book_convertRec2Obj(recs[Head(keys)], BI)))

\* Object.keys( books): the keys in one order (the order in which the blob lists them)
Book_keys(ks) == CHOOSE s \in [1..Cardinality(ks) -> ks] : \A k \in ks : \E i \in DOMAIN s : s[i] = k

\* Book.retrieveAll yields [blob, BI]: the books blob and Book.instances after the call
Book_retrieveAll(blob, BI) ==
  IF ~blob.present THEN [blob |-> Blob(EmptyMap), BI |-> BI]
  ELSE [blob |-> blob, BI |-> Book_retrieveLoop(Book_keys(DOMAIN blob.recs), blob.recs, BI)]

(***************************************************************************)
(* The books of a page across visits: loading the page starts from an      *)
(* empty Book.instances and calls Book.retrieveAll, leaving it calls       *)
(* Book.saveAll. The books blob of the first visit holds any records,      *)
(* among them records that fail a check.                                   *)
(***************************************************************************)
BR_Records ==
  {BookSlots(Isbn1, TitleA, Year2000, Absent, Absent, Absent),
   BookSlots(Isbn1, TitleA, Year2000, Num(BookCategoryEL.TEXTBOOK), TitleA, Absent),
   BookSlots(Isbn1, TitleA, Year2000, Num(BookCategoryEL.BIOGRAPHY), TitleA, Absent),
   BookSlots(Isbn2, TitleB, Year2000, Absent, Absent, Absent),
   BookSlots(Isbn2, TitleB, Year2000, Num(BookCategoryEL.BIOGRAPHY), Absent, TitleA),
   BookSlots(Isbn2, TitleB, Year2000, Absent, Absent, TitleA),
   BookSlots(Isbn2, TitleB, Year2000, Str(<<"3">>), Absent, Absent),
   BookSlots(Isbn11, TitleA, Year2000, Absent, Absent, Absent),
   BookSlots(Str(<<>>), TitleA, Year2000, Absent, Absent, Absent)}

\* the record of each key of a blob carries the key as its ISBN, or no ISBN
BR_RecordsOf(key) == {r \in BR_Records : r.isbn.s \in {key, <<>>}}

BR_Blobs ==
  {NoBlob} \cup
  {Blob(recs) : recs \in UNION {[ks -> BR_Records] : ks \in SUBSET {Isbn1.s, Isbn2.s, Isbn11.s}}}

InitBR ==
  /\ Person_instances = EmptyMap
  /\ Director_instances = EmptyMap
  /\ Movie_instances = EmptyMap
  /\ util = "refs"
  /\ \E b \in BR_Blobs :
       /\ \A k \in DOMAIN b.recs : b.recs[k] \in BR_RecordsOf(k)
       /\ localStorage = [NoStorage EXCEPT !.books = b]
  /\ page = "closed"
  /\ NoCheck

BR_Load ==
  /\ page = "closed"
  /\ \E r \in {Book_retrieveAll(localStorage.books, EmptyMap)} :
       /\ Book_instances' = r.BI
       /\ localStorage' = [localStorage EXCEPT !.books = r.blob]
  /\ page' = "open"
  /\ UNCHANGED <<Person_instances, Director_instances, Movie_instances, util, Employee_instances, Author_instances, call, result, form>>

BR_Unload ==
  /\ page = "open"
  /\ localStorage' = [localStorage EXCEPT !.books = Book_saveAll(Book_instances)]
  /\ Book_instances' = EmptyMap
  /\ page' = "closed"
  /\ UNCHANGED <<Person_instances, Director_instances, Movie_instances, util, Employee_instances, Author_instances, call, result, form>>

NextBR == BR_Load \/ BR_Unload

SpecBR == InitBR /\ [][NextBR]_vars

(***************************************************************************)
(* Properties of Book.retrieveAll (SpecBR)                                 *)
(***************************************************************************)
\* a Book object whose ISBN and segment values pass their checks
BR_ValidBook(o) ==
  /\ o # NullBook
  /\ Truthy(Get(o.isbn))
  /\ IsNoViolation(Book_checkIsbn(Get(o.isbn)))
  /\ IsNoViolation(Book_checkSubjectArea(Get(o.subjectArea), Get(o.category)))
  /\ IsNoViolation(Book_checkAbout(Get(o.about), Get(o.category)))

\* C29: after Book.retrieveAll every value in Book.instances is a Book object that
\* satisfies the ISBN and segment checks, so that a stored record that fails a check has
\* left no entry, and no null entry, under its key
C29_RetrieveAllStoresOnlyValidBooks ==
  page = "open" => \A k \in DOMAIN Book_instances : BR_ValidBook(Book_instances[k])

(***************************************************************************)
(* Visits of the movies page without a call of Movie.destroy, and visits   *)
(* of the people page in between that delete a person: the page loads the  *)
(* people, Person.destroy deletes the person from Person.instances, and    *)
(* Person.saveAll writes the people blob when the page is left.            *)
(***************************************************************************)
PeoplePageDestroy ==
  /\ page = "closed"
  /\ localStorage.people.present
  /\ \E id \in {IdStr(i) : i \in 1..MaxId} :
       \E PI \in {Person_retrieveLoop("Person", KeysInOrder(DOMAIN localStorage.people.recs), localStorage.people.recs, EmptyMap)} :
         localStorage' = [localStorage EXCEPT !.people = Person_saveAll(P1_destroy(id, PI))]
  /\ UNCHANGED <<Person_instances, Director_instances, Movie_instances, util, page, checkVars>>

NextCycle == PageLoad \/ PageAdd \/ PageUpdate \/ PageUnload \/ PeoplePageDestroy

SpecCycle == InitPage /\ [][NextCycle]_vars

\* the same visits with every person kept
NextCycleKeep == PageLoad \/ PageAdd \/ PageUpdate \/ PageUnload

SpecCycleKeep == InitPage /\ [][NextCycleKeep]_vars

(***************************************************************************)
(* Properties of the page cycle (SpecCycle)                                *)
(***************************************************************************)
\* C30: as long as Movie.destroy is not called, a movie record that is in the movies blob
\* is in the blob after every further step (load, Save, unload, deletion of a person),
\* also when the person it has as director has been deleted
C30_NoRecordIsLost ==
  [][DOMAIN localStorage.movies.recs \subseteq DOMAIN localStorage'.movies.recs]_vars
====
